---- MODULE Spec2Model ----
(***************************************************************************)
(* calm.profile report compiler: schema normalizer, placeholder            *)
(* substitution, render pipeline and brand linter.                         *)
(*                                                                         *)
(* Text is a sequence of lexemes.  A lexeme is either one character that   *)
(* some pattern of the program inspects on its own ("$", "{", "}", ":",    *)
(* "%", ".", ",", a digit, a newline) or a literal that the patterns only  *)
(* ever match as a whole (a word of a field name, an HTML tag, a marker).  *)
(***************************************************************************)
EXTENDS Integers, Sequences, FiniteSets, TLC

VARIABLES
    template,      \* substitute_placeholders: the template argument
    data,          \* substitute_placeholders: the data argument
    sub_pc,        \* "start" | "done"
    sub_out,       \* what substitute_placeholders returned or raised
    payload,       \* to_report_fields: the payload argument, as (key, value) pairs in dict order
    normalized,    \* the dict built by to_report_fields / passed to validate_template_fields
    valid,         \* what validate_template_fields returned
    schema_pc,     \* "start" | "normalized" | "validated" | "validated_raw"
    raw_data,      \* validate_and_normalize_assessment_data: the raw_data argument
    norm_pc,       \* "start" | "done" | "webhook_done"
    norm_out,      \* what validate_and_normalize_assessment_data returned or raised
    response,      \* the HTTP status api_stripe_webhook answers with (0: none yet)
    html_file,     \* lint_html_file: the file at html_path (readable or not, and its text)
    errors,        \* BrandLinter.errors
    warnings,      \* BrandLinter.warnings
    lint_pc,       \* "start" | "errors" | "warnings" | "report" | "done"
    lint_result,   \* what lint_html_file returned
    lint_calls,    \* calls of lint_html_file on this BrandLinter so far
    css,           \* the text of templates/report.css
    weasyprint_available,  \* WEASYPRINT_AVAILABLE: whether import weasyprint succeeded
    render_call,   \* "render_to_pdf" | "render_to_html" ("": no call yet)
    output_path,   \* the output_path argument (<<>>: None)
    render_pc,     \* "start" | "substitute" | "assemble" | "validate_page_count" |
                   \* "validate_brand_compliance" | "write" | "done"
    render_content, \* render_to_*: content, as substitute_placeholders returned it
    html_doc,      \* render_to_*: html_doc
    calls,         \* the invocations of the PDF engine and of the linter, in order
    out,           \* the files under out/
    render_out,    \* what the render call raised or returned
    clock,         \* datetime.now(), in whole seconds
    gen,           \* the concurrent render invocations: for each, its entry point, customer,
                   \* record, position, output file name, path and outcome
    s3_enabled,    \* whether the S3 bucket and its keys are configured and boto3 imports
    s3_bucket,     \* the objects of the S3 bucket
    stripe_webhook_secret,  \* whether STRIPE_WEBHOOK_SECRET is set
    payments,      \* the rows of the payments table
    hook,          \* the webhook requests in flight: for each, its endpoint, event,
                   \* position and response
    reports,       \* the calls of generate_pdf_report made by the webhook, in order
    emails,        \* the calls of send_report_email made by the webhook, in order
    cli,           \* main() of lint_report.py: whether the file exists, the flag, the
                   \* position and the exit status
    md,            \* one call of a step of the markdown conversion: its input, the
                   \* locals of its loop, its position and what it returned
    calc           \* one request to /api/assess: the submitted context, the position
                   \* and the computed costs

subVars == <<template, data, sub_pc, sub_out>>

schemaVars == <<payload, normalized, valid, schema_pc>>

normVars == <<raw_data, norm_pc, norm_out, response>>

lintVars == <<html_file, errors, warnings, lint_pc, lint_result, lint_calls>>

renderVars ==
    <<css, weasyprint_available, render_call, output_path, render_pc, render_content,
      html_doc,
      calls, out, render_out>>

genVars == <<clock, gen, s3_enabled, s3_bucket>>

hookVars == <<stripe_webhook_secret, payments, hook, reports, emails>>

cliVars == <<cli>>

mdVars == <<md>>

calcVars == <<calc>>

vars == <<subVars, schemaVars, normVars, lintVars, renderVars, genVars, hookVars, cliVars, mdVars, calcVars>>

\* the variables outside one component
notSubst == <<schemaVars, normVars, lintVars, renderVars, genVars, hookVars, cliVars, mdVars, calcVars>>
notSchema == <<subVars, normVars, lintVars, renderVars, genVars, hookVars, cliVars, mdVars, calcVars>>
notNorm == <<subVars, schemaVars, lintVars, renderVars, genVars, hookVars, cliVars, mdVars, calcVars>>
notLint == <<subVars, schemaVars, normVars, renderVars, genVars, hookVars, cliVars, mdVars, calcVars>>
notRender == <<subVars, schemaVars, normVars, lintVars, genVars, hookVars, cliVars, mdVars, calcVars>>
\* the concurrent renders read the template, the stylesheet and the import
\* flag, and write under out/
notGen ==
    <<subVars, schemaVars, normVars, lintVars, hookVars, cliVars, mdVars, calcVars, css, weasyprint_available,
      render_call, output_path, render_pc, render_content, html_doc, calls, render_out>>
notHook == <<subVars, schemaVars, normVars, lintVars, renderVars, genVars, cliVars, mdVars, calcVars>>
\* main() of lint_report.py runs lint_html_file on a BrandLinter of its own
notCli == <<subVars, schemaVars, normVars, renderVars, genVars, hookVars, mdVars, calcVars>>
notMd ==
    <<subVars, schemaVars, normVars, lintVars, renderVars, genVars, hookVars, cliVars, calcVars>>
notCalc ==
    <<subVars, schemaVars, normVars, lintVars, renderVars, genVars, hookVars, cliVars, mdVars>>

\* the variables of a component that a specification does not exercise
SubstIdle == template = <<>> /\ data = <<>> /\ sub_pc = "idle" /\ sub_out = <<>>

SchemaIdle == payload = <<>> /\ normalized = <<>> /\ valid = FALSE /\ schema_pc = "idle"

NormIdle == raw_data = <<>> /\ norm_pc = "idle" /\ norm_out = <<>> /\ response = 0

LintIdle ==
    /\ html_file = <<>> /\ errors = <<>> /\ warnings = <<>>
    /\ lint_pc = "idle" /\ lint_result = FALSE /\ lint_calls = 0

RenderIdle ==
    /\ css = <<>> /\ weasyprint_available = FALSE /\ render_call = "" /\ output_path = <<>>
    /\ render_pc = "idle" /\ render_content = <<>> /\ html_doc = <<>> /\ calls = <<>> /\ out = {}
    /\ render_out = <<>>

GenIdle == clock = 0 /\ gen = <<>> /\ s3_enabled = FALSE /\ s3_bucket = {}

HookIdle ==
    /\ stripe_webhook_secret = FALSE /\ payments = {} /\ hook = <<>>
    /\ reports = <<>> /\ emails = <<>>

CliIdle == cli = <<>>

MdIdle == md = <<>>

CalcIdle == calc = <<>>

SubstOnly == SchemaIdle /\ NormIdle /\ LintIdle /\ RenderIdle /\ GenIdle /\ HookIdle /\ CliIdle /\ MdIdle /\ CalcIdle
SchemaOnly == SubstIdle /\ NormIdle /\ LintIdle /\ RenderIdle /\ GenIdle /\ HookIdle /\ CliIdle /\ MdIdle /\ CalcIdle
NormOnly == SubstIdle /\ SchemaIdle /\ LintIdle /\ RenderIdle /\ GenIdle /\ HookIdle /\ CliIdle /\ MdIdle /\ CalcIdle
LintOnly == SubstIdle /\ SchemaIdle /\ NormIdle /\ RenderIdle /\ GenIdle /\ HookIdle /\ CliIdle /\ MdIdle /\ CalcIdle

---------------------------------------------------------------------------
\* Bounds of the model

MaxSegs == 3

MaxPayload == 2

MaxLintSegs == 3

MaxLintCalls == 2
\* blank-line-separated blocks in a template of the render specification
MaxRenderBlocks == 2
\* render invocations that run at the same time
MaxRenders == 2
\* the last second the clock shows
MaxClock == 2
\* webhook deliveries in one run
MaxDeliveries == 3
\* lines of a text given to _convert_markdown_tables
MaxTableLines == 4

---------------------------------------------------------------------------
\* Text helpers

Digits == {"0", "1", "2", "3", "4", "5", "6", "7", "8", "9"}

DigitLex == <<"0", "1", "2", "3", "4", "5", "6", "7", "8", "9">>

IsDigit(c) == c \in Digits

MinOf(S) == CHOOSE x \in S : \A y \in S : x <= y
MaxOf(S) == CHOOSE x \in S : \A y \in S : x >= y

\* the position of the leftmost match, 0 when there is none
FirstIn(S) == IF S = {} THEN 0 ELSE MinOf(S)

\* str.lower() on one lexeme
LowerLex(l) ==
    CASE l = "Cost" -> "cost"
      [] l = "Rate" -> "rate"
      [] l = "Annual_" -> "annual_"
      [] OTHER -> l

Lower(t) == [i \in 1..Len(t) |-> LowerLex(t[i])]

\* Python's `w in t` for texts
Contains(t, w) ==
    \E i \in 1..(Len(t) - Len(w) + 1) : SubSeq(t, i, i + Len(w) - 1) = w

RECURSIVE Concat(_)
Concat(ss) ==
    IF Len(ss) = 0 THEN <<>>
    ELSE IF Len(ss) = 1 THEN ss[1]
    ELSE Concat(SubSeq(ss, 1, Len(ss) \div 2)) \o Concat(SubSeq(ss, Len(ss) \div 2 + 1, Len(ss)))

\* decimal digits of a natural number
RECURSIVE DigitsOf(_)
DigitsOf(n) ==
    IF n < 10 THEN <<DigitLex[n + 1]>>
    ELSE DigitsOf(n \div 10) \o <<DigitLex[(n % 10) + 1]>>

Pad3(n) ==
    <<DigitLex[(n \div 100) + 1], DigitLex[((n \div 10) % 10) + 1], DigitLex[(n % 10) + 1]>>

\* format spec "," : thousands separators
RECURSIVE WithCommas(_)
WithCommas(n) ==
    IF n < 1000 THEN DigitsOf(n)
    ELSE WithCommas(n \div 1000) \o <<",">> \o Pad3(n % 1000)

---------------------------------------------------------------------------
\* Values of a record.  A float is held in tenths (n = 61 is 6.1).

StrV(s) == [t |-> "str", n |-> 0, s |-> s, items |-> <<>>]
IntV(n) == [t |-> "int", n |-> n, s |-> <<>>, items |-> <<>>]
FloatV(n) == [t |-> "float", n |-> n, s |-> <<>>, items |-> <<>>]
ListV(items) == [t |-> "list", n |-> 0, s |-> <<>>, items |-> items]
BoolV(n) == [t |-> "bool", n |-> n, s |-> <<>>, items |-> <<>>]
NoneV == [t |-> "none", n |-> 0, s |-> <<>>, items |-> <<>>]

\* isinstance(v, T) for T in str, int, float, list; bool is a subclass of int
IsInstance(v, T) ==
    CASE T = "int" -> v.t \in {"int", "bool"}
      [] OTHER -> v.t = T

\* int(round(x)): round half to even
RoundV(v) ==
    IF v.t \in {"int", "bool"} THEN v.n
    ELSE LET q == v.n \div 10
             r == v.n % 10
         IN  IF r < 5 THEN q
             ELSE IF r > 5 THEN q + 1
             ELSE IF q % 2 = 0 THEN q ELSE q + 1

\* str(value)
StrOf(v) ==
    CASE v.t = "str" -> v.s
      [] v.t = "int" -> DigitsOf(v.n)
      [] v.t = "float" -> DigitsOf(v.n \div 10) \o <<".", DigitLex[(v.n % 10) + 1]>>
      [] v.t = "bool" -> IF v.n = 1 THEN <<"True">> ELSE <<"False">>
      [] v.t = "none" -> <<"None">>
      [] OTHER -> <<"[">> \o Concat(v.items) \o <<"]">>

fmt_int(v) == WithCommas(RoundV(v))

fmt_currency(v) == <<"$">> \o WithCommas(RoundV(v))

\* fmt_percent(x, 1)
fmt_percent(v) ==
    (IF v.t \in {"int", "bool"} THEN DigitsOf(v.n) \o <<".", "0">>
     ELSE DigitsOf(v.n \div 10) \o <<".", DigitLex[(v.n % 10) + 1]>>) \o <<"%">>

---------------------------------------------------------------------------
\* ReportRenderer.substitute_placeholders (renderer/render_report.py)

\* key_with_format.split(":")[0]
KeyOf(content) ==
    LET S == {j \in 1..Len(content) : content[j] = ":"}
    IN  IF S = {} THEN content ELSE SubSeq(content, 1, MinOf(S) - 1)

\* data.get(key, f"${key}"): the f-string renders as "$" followed by the key
DataGet(d, key) ==
    IF key \in DOMAIN d THEN d[key] ELSE StrV(<<"$">> \o key)

RECURSIVE JoinItems(_)
JoinItems(items) ==
    IF items = <<>> THEN <<>>
    ELSE IF Len(items) = 1 THEN items[1]
    ELSE items[1] \o <<",", " ">> \o JoinItems(Tail(items))

RECURSIVE BulletItems(_)
BulletItems(items) ==
    IF items = <<>> THEN <<>>
    ELSE <<"<li>">> \o items[1] \o <<"</li>">> \o BulletItems(Tail(items))

\* the branches for numbers with the percentage test ahead of the currency test
replace_placeholder_percent_first(content, d) ==
    LET key == KeyOf(content)
        value == DataGet(d, key)
        lk == Lower(key)
    IN  IF IsInstance(value, "int") \/ IsInstance(value, "float")
        THEN IF Contains(lk, <<"percentage">>) \/ Contains(lk, <<"confidence">>)
             THEN fmt_percent(value)
             ELSE IF \/ Contains(lk, <<"cost">>)
                     \/ Contains(lk, <<"savings">>)
                     \/ Contains(lk, <<"rate">>)
                     \/ Contains(lk, <<"5", "yr">>)
             THEN fmt_currency(value)
             ELSE IF Contains(lk, <<"rice">>)
             THEN StrOf(value)
             ELSE fmt_int(value)
        ELSE StrOf(value)

replace_placeholder(content, d) ==
    LET key == KeyOf(content)
        value == DataGet(d, key)
        lk == Lower(key)
    IN  IF IsInstance(value, "int") \/ IsInstance(value, "float")
        THEN IF \/ Contains(lk, <<"cost">>)
                \/ Contains(lk, <<"savings">>)
                \/ Contains(lk, <<"rate">>)
                \/ Contains(lk, <<"5", "yr">>)
             THEN fmt_currency(value)
             ELSE IF Contains(lk, <<"percentage">>) \/ Contains(lk, <<"confidence">>)
             THEN fmt_percent(value)
             ELSE IF Contains(lk, <<"margin">>)
             THEN fmt_int(value)
             ELSE IF Contains(lk, <<"hours">>) \/ Contains(lk, <<"count">>)
             THEN fmt_int(value)
             ELSE IF Contains(lk, <<"rice">>)
             THEN StrOf(value)
             ELSE fmt_int(value)
        ELSE IF value.t = "list"
        THEN IF key = <<"top_findings">>
             THEN <<"<ul>">> \o BulletItems(value.items) \o <<"</ul>">>
             ELSE JoinItems(value.items)
        ELSE StrOf(value)

\* The pattern \$\{([^}]+)\} tried at position i: the index of the closing
\* brace, or 0 when the pattern does not match there.
PlaceholderEnd(t, i) ==
    IF i + 1 <= Len(t) /\ t[i] = "$" /\ t[i + 1] = "{"
    THEN LET S == {j \in (i + 2)..Len(t) : t[j] = "}"}
         IN  IF S # {} /\ MinOf(S) >= i + 3 THEN MinOf(S) ELSE 0
    ELSE 0

\* re.sub(r"\$\{([^}]+)\}", replace_placeholder, template), from position i
RECURSIVE SubstituteFrom(_, _, _)
SubstituteFrom(t, d, i) ==
    LET a == FirstIn({j \in i..Len(t) : PlaceholderEnd(t, j) > 0})
    IN  IF a = 0 THEN SubSeq(t, i, Len(t))
        ELSE SubSeq(t, i, a - 1)
                 \o replace_placeholder(SubSeq(t, a + 2, PlaceholderEnd(t, a) - 1), d)
                 \o SubstituteFrom(t, d, PlaceholderEnd(t, a) + 1)

\* re.findall(r"\$\{[^}]+\}", text), from position i
RECURSIVE FindPlaceholders(_, _)
FindPlaceholders(t, i) ==
    LET a == FirstIn({j \in i..Len(t) : PlaceholderEnd(t, j) > 0})
    IN  IF a = 0 THEN <<>>
        ELSE <<SubSeq(t, a, PlaceholderEnd(t, a))>>
                 \o FindPlaceholders(t, PlaceholderEnd(t, a) + 1)

\* first index >= i that holds no digit
DigEnd(t, i) ==
    LET S == {j \in i..Len(t) : ~IsDigit(t[j])}
    IN  IF S = {} THEN Len(t) + 1 ELSE MinOf(S)

HasAt(t, i, w) ==
    i + Len(w) - 1 <= Len(t) /\ SubSeq(t, i, i + Len(w) - 1) = w

\* \d+(?:\.\d+)? followed by the literal w, tried at position i: the index
\* after the match, or 0
NumThen(t, i, w) ==
    LET e == DigEnd(t, i)
    IN  IF i > Len(t) \/ e = i THEN 0
        ELSE LET f == IF e <= Len(t) /\ t[e] = "." THEN DigEnd(t, e + 1) ELSE 0
             IN  IF f > e + 1 /\ HasAt(t, f, w) THEN f + Len(w)
                 ELSE IF HasAt(t, e, w) THEN e + Len(w)
                 ELSE 0

\* re.sub(r"\$(\d+(?:\.\d+)?%)", r"\1", text)
RECURSIVE StripDollarPercent(_, _)
StripDollarPercent(t, i) ==
    LET a == FirstIn({j \in i..Len(t) : t[j] = "$" /\ NumThen(t, j + 1, <<"%">>) > 0})
    IN  IF a = 0 THEN SubSeq(t, i, Len(t))
        ELSE SubSeq(t, i, a - 1)
                 \o SubSeq(t, a + 1, NumThen(t, a + 1, <<"%">>) - 1)
                 \o StripDollarPercent(t, NumThen(t, a + 1, <<"%">>))

\* re.sub(r"(\d+(?:\.\d+)?)%%", r"\1%", text)
RECURSIVE CollapseDoublePercent(_, _)
CollapseDoublePercent(t, i) ==
    LET a == FirstIn({j \in i..Len(t) : NumThen(t, j, <<"%", "%">>) > 0})
    IN  IF a = 0 THEN SubSeq(t, i, Len(t))
        ELSE SubSeq(t, i, NumThen(t, a, <<"%", "%">>) - 2)
                 \o CollapseDoublePercent(t, NumThen(t, a, <<"%", "%">>))

PercentCleanup(t) == CollapseDoublePercent(StripDollarPercent(t, 1), 1)

Raised(kind, detail) == [raised |-> TRUE, kind |-> kind, detail |-> detail, text |-> <<>>]
Returned(text) == [raised |-> FALSE, kind |-> "", detail |-> <<>>, text |-> text]

substitute_placeholders_unchecked(tpl, d) ==
    Returned(PercentCleanup(SubstituteFrom(tpl, d, 1)))

substitute_placeholders(tpl, d) ==
    LET result == SubstituteFrom(tpl, d, 1)
        unresolved == FindPlaceholders(result, 1)
    IN  IF unresolved # <<>>
        THEN Raised("ValueError", unresolved)
        ELSE Returned(PercentCleanup(result))

---------------------------------------------------------------------------
\* Inputs of the substitution specification

Placeholder(content) == <<"$", "{">> \o content \o <<"}">>

Segments ==
    { <<"$">>, <<"{">>, <<"}">>, <<"%">>, <<"5">>, <<"x">>,
      Placeholder(<<"company_name">>),
      Placeholder(<<"nope">>),
      Placeholder(<<"annual_", "cost">>),
      Placeholder(<<"overhead_", "percentage", ":", ".", "1", "f">>),
      Placeholder(<<"top_findings">>),
      Placeholder(<<"r", "1", "_", "rice">>) }

RECURSIVE TemplatesUpTo(_)
TemplatesUpTo(n) ==
    IF n = 0 THEN {<<>>}
    ELSE LET T == TemplatesUpTo(n - 1)
         IN  T \cup {t \o s : t \in T, s \in Segments}

SampleData ==
    (<<"company_name">> :> StrV(<<"acme">>))
    @@ (<<"annual_", "cost">> :> IntV(125000))
    @@ (<<"overhead_", "percentage">> :> FloatV(152))
    @@ (<<"top_findings">> :> ListV(<< <<"a">>, <<"b">> >>))
    @@ (<<"r", "1", "_", "rice">> :> IntV(8))

\* a record whose text value reads as a placeholder, and one that opens one
TokenData == (<<"company_name">> :> StrV(Placeholder(<<"x">>)))
OpenData == (<<"company_name">> :> StrV(<<"$", "{">>)) @@ (<<"annual_", "cost">> :> FloatV(25))

SubstData == {<<>>, SampleData, TokenData, OpenData}

SubstInit ==
    /\ template \in TemplatesUpTo(MaxSegs)
    /\ data \in SubstData
    /\ sub_pc = "start"
    /\ sub_out = Returned(<<>>)
    /\ SubstOnly

Substitute ==
    /\ sub_pc = "start"
    /\ sub_out' = substitute_placeholders(template, data)
    /\ sub_pc' = "done"
    /\ UNCHANGED <<template, data, notSubst>>

SubstNext == Substitute

SpecSubst == SubstInit /\ [][SubstNext]_vars

\* Inputs of the formatting specification: one placeholder, with and without
\* a format hint, and a record that holds a number under its key
FormatKeys ==
    { <<"annual_", "cost">>,
      <<"Annual_", "Cost">>,
      <<"cost", "_", "percentage">>,
      <<"confidence", "_", "rate">>,
      <<"corpo", "rate", "_", "head", "count">>,
      <<"savings", "_", "5", "yr">>,
      <<"overhead_", "percentage">>,
      <<"percentage", "_", "margin">>,
      <<"margin", "_", "hours">>,
      <<"hours", "_", "count">>,
      <<"r", "1", "_", "rice">>,
      <<"p", "rice">>,
      <<"rice", "_", "cost">>,
      <<"rice", "_", "count">>,
      <<"team_size">> }

FormatHints == {<<>>, <<":", ",">>}

FormatValues ==
    {IntV(8), IntV(125000), IntV(1234567), FloatV(0), FloatV(25), FloatV(35), FloatV(152),
     FloatV(12345)}

FormatInit ==
    /\ \E key \in FormatKeys, hint \in FormatHints, value \in FormatValues :
           /\ template = Placeholder(key \o hint)
           /\ data = (key :> value)
    /\ sub_pc = "start"
    /\ sub_out = Returned(<<>>)
    /\ SubstOnly

SpecFormat == FormatInit /\ [][SubstNext]_vars

---------------------------------------------------------------------------
\* Claims about substitute_placeholders

\* a complete token ${...}: "$", "{", at least one lexeme other than "}", "}"
HasToken(t) ==
    \E i \in 1..Len(t), j \in 1..Len(t) :
        /\ j >= i + 3
        /\ t[i] = "$" /\ t[i + 1] = "{" /\ t[j] = "}"
        /\ \A k \in (i + 2)..(j - 1) : t[k] # "}"

\* the field names of the template's placeholders that the record lacks
MissingKeys(tpl, d) ==
    LET found == FindPlaceholders(tpl, 1)
    IN  {KeyOf(SubSeq(found[k], 3, Len(found[k]) - 1)) : k \in 1..Len(found)} \ DOMAIN d

\* C1 (as stated): substitute_placeholders either raises or returns text
\* that nowhere contains the two-character sequence "${".
C1_NeverDollarBrace ==
    (sub_pc = "done" /\ ~sub_out.raised) => ~Contains(sub_out.text, <<"$", "{">>)

\* C1 (amended): substitute_placeholders either raises or returns text that
\* holds no complete placeholder token ${...}; a bare "${" that is never
\* closed, or "${}", can be returned.
C1_NeverReturnsToken ==
    (sub_pc = "done" /\ ~sub_out.raised) => ~HasToken(sub_out.text)

\* C1 witness: a template with a placeholder was substituted and text returned
C1_Witness ==
    /\ sub_pc = "done"
    /\ ~sub_out.raised
    /\ HasToken(template)
    /\ sub_out.text # <<>>

\* C2: when the template has a placeholder whose field name is not a key of
\* the record, substitute_placeholders raises, lists every such token and
\* returns no text.
C2_MissingFieldRaises ==
    (sub_pc = "done" /\ MissingKeys(template, data) # {}) =>
        /\ sub_out.raised
        /\ \A key \in MissingKeys(template, data) :
               \E k \in 1..Len(sub_out.detail) :
                   KeyOf(SubSeq(sub_out.detail[k], 3, Len(sub_out.detail[k]) - 1)) = key

---------------------------------------------------------------------------
\* renderer/schema.py

\* TEMPLATE_FIELDS: field name -> declared type (schema.py:13-198)
TEMPLATE_FIELDS ==
    [ company_name |-> "str", assessment_date |-> "str", report_id |-> "str",
      assessment_id |-> "str", completion_date |-> "str", customer_email |-> "str",
      archetype_primary |-> "str", archetype_confidence |-> "float",
      archetype_tagline |-> "str", archetype_mix_primary |-> "float",
      archetype_mix_secondary |-> "float", archetype_mix_tertiary |-> "float",
      archetype_mix_quaternary |-> "float", archetype_secondary |-> "str",
      archetype_tertiary |-> "str", archetype_quaternary |-> "str", axis_structure |-> "int",
      axis_collaboration |-> "int", axis_scope |-> "int", axis_tempo |-> "int",
      overhead_percentage |-> "float", annual_cost |-> "float", weekly_cost |-> "float",
      hours_lost_ppw |-> "float", team_size |-> "int", meeting_load |-> "str",
      hourly_rate |-> "float", platform |-> "str", r1_title |-> "str",
      r1_description |-> "str", r1_effort |-> "str", r1_impact |-> "str",
      r1_timeline |-> "str", r1_rice |-> "int", r1_linked_finding |-> "str",
      r2_title |-> "str", r2_description |-> "str", r2_effort |-> "str", r2_impact |-> "str",
      r2_timeline |-> "str", r2_rice |-> "int", r2_linked_finding |-> "str",
      r3_title |-> "str", r3_description |-> "str", r3_effort |-> "str", r3_impact |-> "str",
      r3_timeline |-> "str", r3_rice |-> "int", r3_linked_finding |-> "str",
      r4_title |-> "str", r4_description |-> "str", r4_effort |-> "str", r4_impact |-> "str",
      r4_timeline |-> "str", r4_rice |-> "int", r4_linked_finding |-> "str",
      r5_title |-> "str", r5_description |-> "str", r5_effort |-> "str", r5_impact |-> "str",
      r5_timeline |-> "str", r5_rice |-> "int", r5_linked_finding |-> "str",
      break_even_timeline |-> "str", team_multiplier |-> "int", confidence_score |-> "float",
      response_count |-> "int", top_findings |-> "list", radar_insights |-> "str",
      time_productive |-> "int", time_meetings |-> "int", time_admin |-> "int",
      time_context_switch |-> "int", workflow1_r |-> "str", workflow1_a |-> "str",
      workflow1_s |-> "str", workflow1_c |-> "str", workflow1_i |-> "str",
      workflow2_r |-> "str", workflow2_a |-> "str", workflow2_s |-> "str",
      workflow2_c |-> "str", workflow2_i |-> "str", workflow3_r |-> "str",
      workflow3_a |-> "str", workflow3_s |-> "str", workflow3_c |-> "str",
      workflow3_i |-> "str", workflow4_r |-> "str", workflow4_a |-> "str",
      workflow4_s |-> "str", workflow4_c |-> "str", workflow4_i |-> "str",
      workflow5_r |-> "str", workflow5_a |-> "str", workflow5_s |-> "str",
      workflow5_c |-> "str", workflow5_i |-> "str", f1_issue |-> "str", f1_evidence |-> "str",
      f1_impact |-> "str", f1_root_cause |-> "str", f1_preview |-> "str", f2_issue |-> "str",
      f2_evidence |-> "str", f2_impact |-> "str", f2_root_cause |-> "str",
      f2_preview |-> "str", f3_issue |-> "str", f3_evidence |-> "str", f3_impact |-> "str",
      f3_root_cause |-> "str", f3_preview |-> "str", f4_issue |-> "str", f4_evidence |-> "str",
      f4_impact |-> "str", f4_root_cause |-> "str", f4_preview |-> "str", f5_issue |-> "str",
      f5_evidence |-> "str", f5_impact |-> "str", f5_root_cause |-> "str",
      f5_preview |-> "str", efficiency_planning |-> "int", efficiency_execution |-> "int",
      efficiency_review |-> "int", efficiency_communication |-> "int",
      workflow_bottlenecks |-> "str", base_overhead |-> "float",
      archetype_adjustment |-> "float", sensitivity_25_margin |-> "float",
      sensitivity_25_cost |-> "float", sensitivity_25_hours |-> "float",
      sensitivity_50_margin |-> "float", sensitivity_50_cost |-> "float",
      sensitivity_50_hours |-> "float", sensitivity_75_margin |-> "float",
      sensitivity_75_cost |-> "float", sensitivity_75_hours |-> "float",
      conservative_5yr |-> "float", realistic_5yr |-> "float", optimistic_5yr |-> "float",
      savings_month1 |-> "float", savings_month3 |-> "float", savings_month6 |-> "float",
      savings_month12 |-> "float", critical_path |-> "str", milestone_schedule |-> "str",
      roadmap_30_days |-> "str", roadmap_60_days |-> "str", roadmap_90_days |-> "str",
      baseline_ontime |-> "float", target_ontime |-> "float", owner_ontime |-> "str",
      baseline_latency |-> "float", target_latency |-> "float", owner_latency |-> "str",
      baseline_variance |-> "float", target_variance |-> "float", owner_variance |-> "str",
      baseline_change |-> "float", target_change |-> "float", owner_change |-> "str",
      next_steps |-> "str" ]

\* CAMEL_TO_SNAKE_MAP (schema.py:201-385)
CAMEL_TO_SNAKE_MAP ==
    [ companyName |-> "company_name", assessmentDate |-> "assessment_date",
      reportId |-> "report_id", assessmentId |-> "assessment_id",
      completionDate |-> "completion_date", customerEmail |-> "customer_email",
      archetypePrimary |-> "archetype_primary", archetypeConfidence |-> "archetype_confidence",
      archetypeTagline |-> "archetype_tagline",
      archetypeMixPrimary |-> "archetype_mix_primary",
      archetypeMixSecondary |-> "archetype_mix_secondary",
      archetypeMixTertiary |-> "archetype_mix_tertiary",
      archetypeMixQuaternary |-> "archetype_mix_quaternary",
      archetypeSecondary |-> "archetype_secondary", archetypeTertiary |-> "archetype_tertiary",
      archetypeQuaternary |-> "archetype_quaternary", axisStructure |-> "axis_structure",
      axisCollaboration |-> "axis_collaboration", axisScope |-> "axis_scope",
      axisTempo |-> "axis_tempo", overheadPercentage |-> "overhead_percentage",
      annualCost |-> "annual_cost", weeklyCost |-> "weekly_cost",
      hoursLostPpw |-> "hours_lost_ppw", teamSize |-> "team_size",
      meetingLoad |-> "meeting_load", hourlyRate |-> "hourly_rate", r1Title |-> "r1_title",
      r1Description |-> "r1_description", r1Effort |-> "r1_effort", r1Impact |-> "r1_impact",
      r1Timeline |-> "r1_timeline", r1Rice |-> "r1_rice",
      r1LinkedFinding |-> "r1_linked_finding", r2Title |-> "r2_title",
      r2Description |-> "r2_description", r2Effort |-> "r2_effort", r2Impact |-> "r2_impact",
      r2Timeline |-> "r2_timeline", r2Rice |-> "r2_rice",
      r2LinkedFinding |-> "r2_linked_finding", r3Title |-> "r3_title",
      r3Description |-> "r3_description", r3Effort |-> "r3_effort", r3Impact |-> "r3_impact",
      r3Timeline |-> "r3_timeline", r3Rice |-> "r3_rice",
      r3LinkedFinding |-> "r3_linked_finding", r4Title |-> "r4_title",
      r4Description |-> "r4_description", r4Effort |-> "r4_effort", r4Impact |-> "r4_impact",
      r4Timeline |-> "r4_timeline", r4Rice |-> "r4_rice",
      r4LinkedFinding |-> "r4_linked_finding", r5Title |-> "r5_title",
      r5Description |-> "r5_description", r5Effort |-> "r5_effort", r5Impact |-> "r5_impact",
      r5Timeline |-> "r5_timeline", r5Rice |-> "r5_rice",
      r5LinkedFinding |-> "r5_linked_finding", breakEvenTimeline |-> "break_even_timeline",
      teamMultiplier |-> "team_multiplier", confidenceScore |-> "confidence_score",
      responseCount |-> "response_count", topFindings |-> "top_findings",
      radarInsights |-> "radar_insights", timeProductive |-> "time_productive",
      timeMeetings |-> "time_meetings", timeAdmin |-> "time_admin",
      timeContextSwitch |-> "time_context_switch", workflow1R |-> "workflow1_r",
      workflow1A |-> "workflow1_a", workflow1S |-> "workflow1_s", workflow1C |-> "workflow1_c",
      workflow1I |-> "workflow1_i", workflow2R |-> "workflow2_r", workflow2A |-> "workflow2_a",
      workflow2S |-> "workflow2_s", workflow2C |-> "workflow2_c", workflow2I |-> "workflow2_i",
      workflow3R |-> "workflow3_r", workflow3A |-> "workflow3_a", workflow3S |-> "workflow3_s",
      workflow3C |-> "workflow3_c", workflow3I |-> "workflow3_i", workflow4R |-> "workflow4_r",
      workflow4A |-> "workflow4_a", workflow4S |-> "workflow4_s", workflow4C |-> "workflow4_c",
      workflow4I |-> "workflow4_i", workflow5R |-> "workflow5_r", workflow5A |-> "workflow5_a",
      workflow5S |-> "workflow5_s", workflow5C |-> "workflow5_c", workflow5I |-> "workflow5_i",
      f1Issue |-> "f1_issue", f1Evidence |-> "f1_evidence", f1Impact |-> "f1_impact",
      f1RootCause |-> "f1_root_cause", f1Preview |-> "f1_preview", f2Issue |-> "f2_issue",
      f2Evidence |-> "f2_evidence", f2Impact |-> "f2_impact", f2RootCause |-> "f2_root_cause",
      f2Preview |-> "f2_preview", f3Issue |-> "f3_issue", f3Evidence |-> "f3_evidence",
      f3Impact |-> "f3_impact", f3RootCause |-> "f3_root_cause", f3Preview |-> "f3_preview",
      f4Issue |-> "f4_issue", f4Evidence |-> "f4_evidence", f4Impact |-> "f4_impact",
      f4RootCause |-> "f4_root_cause", f4Preview |-> "f4_preview", f5Issue |-> "f5_issue",
      f5Evidence |-> "f5_evidence", f5Impact |-> "f5_impact", f5RootCause |-> "f5_root_cause",
      f5Preview |-> "f5_preview", efficiencyPlanning |-> "efficiency_planning",
      efficiencyExecution |-> "efficiency_execution", efficiencyReview |-> "efficiency_review",
      efficiencyCommunication |-> "efficiency_communication",
      workflowBottlenecks |-> "workflow_bottlenecks", baseOverhead |-> "base_overhead",
      archetypeAdjustment |-> "archetype_adjustment",
      sensitivity25Margin |-> "sensitivity_25_margin",
      sensitivity25Cost |-> "sensitivity_25_cost",
      sensitivity25Hours |-> "sensitivity_25_hours",
      sensitivity50Margin |-> "sensitivity_50_margin",
      sensitivity50Cost |-> "sensitivity_50_cost",
      sensitivity50Hours |-> "sensitivity_50_hours",
      sensitivity75Margin |-> "sensitivity_75_margin",
      sensitivity75Cost |-> "sensitivity_75_cost",
      sensitivity75Hours |-> "sensitivity_75_hours", conservative5yr |-> "conservative_5yr",
      realistic5yr |-> "realistic_5yr", optimistic5yr |-> "optimistic_5yr",
      savingsMonth1 |-> "savings_month1", savingsMonth3 |-> "savings_month3",
      savingsMonth6 |-> "savings_month6", savingsMonth12 |-> "savings_month12",
      criticalPath |-> "critical_path", milestoneSchedule |-> "milestone_schedule",
      roadmap30Days |-> "roadmap_30_days", roadmap60Days |-> "roadmap_60_days",
      roadmap90Days |-> "roadmap_90_days", baselineOntime |-> "baseline_ontime",
      targetOntime |-> "target_ontime", ownerOntime |-> "owner_ontime",
      baselineLatency |-> "baseline_latency", targetLatency |-> "target_latency",
      ownerLatency |-> "owner_latency", baselineVariance |-> "baseline_variance",
      targetVariance |-> "target_variance", ownerVariance |-> "owner_variance",
      baselineChange |-> "baseline_change", targetChange |-> "target_change",
      ownerChange |-> "owner_change", nextSteps |-> "next_steps" ]

\* CAMEL_TO_SNAKE_MAP.get(camel_key, camel_key)
SnakeKey(camel_key) ==
    IF camel_key \in DOMAIN CAMEL_TO_SNAKE_MAP
    THEN CAMEL_TO_SNAKE_MAP[camel_key]
    ELSE camel_key

\* the first loop of to_report_fields: normalized[snake_key] = value, in
\* the payload's order (a later pair overwrites an earlier one)
RenameKeys(p) ==
    LET snake == [i \in 1..Len(p) |-> SnakeKey(p[i][1])]
        last(k) == CHOOSE i \in 1..Len(p) :
                       snake[i] = k /\ \A j \in 1..Len(p) : snake[j] = k => j <= i
    IN  [k \in {snake[i] : i \in 1..Len(p)} |-> p[last(k)][2]]

\* the default of a missing field, by declared type; the str default is the
\* three-character literal of schema.py:417 (a mis-decoded em dash), held
\* here as one lexeme
DefaultOf(field_type) ==
    CASE field_type = "str" -> StrV(<<"(em-dash)">>)
      [] field_type \in {"int", "float"} -> IntV(0)
      [] field_type = "list" -> ListV(<<>>)

to_report_fields_no_list_default(p) ==
    LET renamed == RenameKeys(p)
        missing_fields == {f \in DOMAIN TEMPLATE_FIELDS : f \notin DOMAIN renamed}
        defaulted == {f \in missing_fields : TEMPLATE_FIELDS[f] \in {"str", "int", "float"}}
    IN  [f \in defaulted |-> DefaultOf(TEMPLATE_FIELDS[f])] @@ renamed

to_report_fields_str_zero(p) ==
    LET renamed == RenameKeys(p)
        missing_fields == {f \in DOMAIN TEMPLATE_FIELDS : f \notin DOMAIN renamed}
    IN  [f \in missing_fields |->
            IF TEMPLATE_FIELDS[f] = "list" THEN ListV(<<>>) ELSE IntV(0)] @@ renamed

to_report_fields(p) ==
    LET renamed == RenameKeys(p)
        missing_fields == {f \in DOMAIN TEMPLATE_FIELDS : f \notin DOMAIN renamed}
        defaulted == {f \in missing_fields :
                         TEMPLATE_FIELDS[f] \in {"str", "int", "float", "list"}}
    IN  [f \in defaulted |-> DefaultOf(TEMPLATE_FIELDS[f])] @@ renamed

\* float(value) of an int (or bool) value
ToFloat(v) == FloatV(v.n * 10)

\* the fields validate_template_fields widens: int where float is expected
Widened(d) ==
    {f \in DOMAIN TEMPLATE_FIELDS \cap DOMAIN d :
        TEMPLATE_FIELDS[f] = "float" /\ IsInstance(d[f], "int")}

validate_template_fields_no_widening(d) ==
    LET type_errors == {f \in DOMAIN TEMPLATE_FIELDS \cap DOMAIN d :
                            ~IsInstance(d[f], TEMPLATE_FIELDS[f])}
    IN  [ok |-> type_errors = {}, data |-> d]

\* validate_template_fields: the verdict, and the dict as the call leaves it
validate_template_fields(d) ==
    LET widened == Widened(d)
        type_errors == {f \in (DOMAIN TEMPLATE_FIELDS \cap DOMAIN d) \ widened :
                            ~IsInstance(d[f], TEMPLATE_FIELDS[f])}
    IN  [ok |-> type_errors = {},
         data |-> [f \in DOMAIN d |-> IF f \in widened THEN ToFloat(d[f]) ELSE d[f]]]

\* the dict a payload denotes
RECURSIVE DictOf(_)
DictOf(p) ==
    IF p = <<>> THEN <<>>
    ELSE (p[Len(p)][1] :> p[Len(p)][2]) @@ DictOf(SubSeq(p, 1, Len(p) - 1))

\* Inputs of the schema specification
PayloadKeys ==
    {"companyName", "company_name", "team_size", "hourly_rate", "top_findings", "extra"}

PayloadValues ==
    {StrV(<<"acme">>), IntV(10), FloatV(855), ListV(<< <<"a">> >>), BoolV(1)}

RECURSIVE PayloadsUpTo(_)
PayloadsUpTo(n) ==
    IF n = 0 THEN {<<>>}
    ELSE LET P == PayloadsUpTo(n - 1)
         IN  P \cup {Append(p, <<k, v>>) :
                        p \in {q \in P : Len(q) = n - 1},
                        k \in PayloadKeys, v \in PayloadValues}

DistinctKeys(p) == \A i, j \in 1..Len(p) : p[i][1] = p[j][1] => i = j

SchemaInit ==
    /\ payload \in {p \in PayloadsUpTo(MaxPayload) : DistinctKeys(p)}
    /\ normalized = <<>>
    /\ valid = FALSE
    /\ schema_pc = "start"
    /\ SchemaOnly

\* normalized = to_report_fields(payload)
ToReportFields ==
    /\ schema_pc = "start"
    /\ normalized' = to_report_fields(payload)
    /\ schema_pc' = "normalized"
    /\ UNCHANGED <<payload, valid, notSchema>>

\* validate_template_fields(normalized), as validate_and_normalize_assessment_data calls it
ValidateNormalized ==
    /\ schema_pc = "normalized"
    /\ LET r == validate_template_fields(normalized)
       IN  normalized' = r.data /\ valid' = r.ok
    /\ schema_pc' = "validated"
    /\ UNCHANGED <<payload, notSchema>>

\* validate_template_fields called on the caller's dict as it is
ValidateRaw ==
    /\ schema_pc = "start"
    /\ LET r == validate_template_fields(DictOf(payload))
       IN  normalized' = r.data /\ valid' = r.ok
    /\ schema_pc' = "validated_raw"
    /\ UNCHANGED <<payload, notSchema>>

SchemaNext == ToReportFields \/ ValidateNormalized \/ ValidateRaw

SpecSchema == SchemaInit /\ [][SchemaNext]_vars

---------------------------------------------------------------------------
\* Claims about the schema normalizer

\* a value fits a declared type: an instance of it, or an int where a float
\* is declared
TypeCompatible(v, T) == IsInstance(v, T) \/ (T = "float" /\ IsInstance(v, "int"))

\* the canonical names the caller's payload supplies
SuppliedFields(p) == {SnakeKey(p[i][1]) : i \in 1..Len(p)}

\* C5: every field name of TEMPLATE_FIELDS is a key of the record returned
\* by to_report_fields, whatever the payload.
C5_AllFieldsPresent ==
    schema_pc \in {"normalized", "validated"} =>
        \A f \in DOMAIN TEMPLATE_FIELDS : f \in DOMAIN normalized

\* C5 witness: a payload mixing a camelCase key and an unrecognized key, and
\* lacking the list field, has been normalized
C5_Witness ==
    /\ schema_pc = "normalized"
    /\ \E i, j \in 1..Len(payload) : payload[i][1] = "companyName" /\ payload[j][1] = "extra"
    /\ "top_findings" \notin SuppliedFields(payload)

\* C6 (as stated): for any input, every canonical field of the record
\* returned by to_report_fields is type-compatible with its declared type,
\* caller-supplied values included.
C6_AlwaysTypeCompatible ==
    schema_pc = "normalized" =>
        \A f \in DOMAIN TEMPLATE_FIELDS \cap DOMAIN normalized :
            TypeCompatible(normalized[f], TEMPLATE_FIELDS[f])

\* C6 (amended): every injected default is type-compatible with its declared
\* type; caller-supplied values are passed through unchecked, and
\* validate_template_fields accepts the normalized record exactly when every
\* canonical field is type-compatible.
C6_DefaultsAndAcceptedCompatible ==
    /\ schema_pc = "normalized" =>
           \A f \in DOMAIN TEMPLATE_FIELDS \ SuppliedFields(payload) :
               f \in DOMAIN normalized /\ TypeCompatible(normalized[f], TEMPLATE_FIELDS[f])
    /\ schema_pc = "validated" =>
           (valid <=> \A f \in DOMAIN TEMPLATE_FIELDS \cap DOMAIN normalized :
                          TypeCompatible(normalized[f], TEMPLATE_FIELDS[f]))

\* C6 witness: a record with a caller-supplied value and injected defaults
\* was accepted by validate_template_fields
C6_Witness ==
    /\ schema_pc = "validated"
    /\ valid
    /\ "team_size" \in SuppliedFields(payload)
    /\ "company_name" \notin SuppliedFields(payload)

\* C7: validate_template_fields accepts an int for a float field and widens
\* it, fails for every other present field whose value is not of the
\* declared type, and does not fail for absent fields.
C7_ValidateVerdict ==
    schema_pc = "validated_raw" =>
        LET d == DictOf(payload)
            present == DOMAIN TEMPLATE_FIELDS \cap DOMAIN d
            int_for_float == {f \in present :
                                 TEMPLATE_FIELDS[f] = "float" /\ IsInstance(d[f], "int")}
        IN  /\ valid <=> \A f \in present \ int_for_float :
                             IsInstance(d[f], TEMPLATE_FIELDS[f])
            /\ \A f \in int_for_float : normalized[f].t = "float"
            /\ DOMAIN normalized = DOMAIN d

\* C7 witness: a dict with an int in a float field, most fields absent, was
\* accepted and the int widened
C7_Witness ==
    /\ schema_pc = "validated_raw"
    /\ valid
    /\ \E i \in 1..Len(payload) : payload[i] = <<"hourly_rate", IntV(10)>>
    /\ normalized["hourly_rate"] = FloatV(100)
    /\ "company_name" \notin DOMAIN normalized

---------------------------------------------------------------------------
\* validate_and_normalize_assessment_data (app.py) and its caller in
\* api_stripe_webhook

\* a dict value: items is the mapping itself
DictV(d) == [t |-> "dict", n |-> 0, s |-> <<>>, items |-> d]

\* the value of an expression that raised
ErrV(kind) == [t |-> kind, n |-> 0, s |-> <<>>, items |-> <<>>]

ErrorKinds == {"AttributeError", "TypeError", "ZeroDivisionError"}

IsErr(v) == v.t \in ErrorKinds

IsNum(v) == v.t \in {"int", "bool", "float"}

\* the names a module defines at top level
RenderReportExports ==
    {"fmt_int", "fmt_currency", "fmt_percent", "WEASYPRINT_AVAILABLE", "MARKDOWN_AVAILABLE",
     "logger", "ReportRenderer", "create_sample_data", "main"}

SchemaExports ==
    {"TEMPLATE_FIELDS", "CAMEL_TO_SNAKE_MAP", "to_report_fields", "validate_template_fields"}

\* from <module> import <names>: the names the module does not define, in order
ImportFailures(exports, names) == SelectSeq(names, LAMBDA nm : nm \notin exports)

required_fields ==
    <<"responses", "context", "result", "metrics", "company_name", "assessment_date",
      "report_id">>

\* raw_data.get(key, default) on the top-level dict
RawGet(raw, key, default) == IF key \in DOMAIN raw THEN raw[key] ELSE default

\* v.get(key, default)
GetV(v, key, default) ==
    IF IsErr(v) THEN v
    ELSE IF v.t # "dict" THEN ErrV("AttributeError")
    ELSE IF key \in DOMAIN v.items THEN v.items[key] ELSE default

RECURSIVE Repeat(_, _)
Repeat(s, k) == IF k <= 0 THEN <<>> ELSE s \o Repeat(s, k - 1)

\* a * b; a float product is kept to the tenth
MulV(a, b) ==
    IF IsErr(a) THEN a
    ELSE IF IsErr(b) THEN b
    ELSE IF IsNum(a) /\ IsNum(b)
         THEN IF a.t = "float" /\ b.t = "float" THEN FloatV((a.n * b.n) \div 10)
              ELSE IF a.t = "float" \/ b.t = "float" THEN FloatV(a.n * b.n)
              ELSE IntV(a.n * b.n)
    ELSE IF a.t = "str" /\ b.t \in {"int", "bool"} THEN StrV(Repeat(a.s, b.n))
    ELSE IF b.t = "str" /\ a.t \in {"int", "bool"} THEN StrV(Repeat(b.s, a.n))
    ELSE IF a.t = "list" /\ b.t \in {"int", "bool"} THEN ListV(Repeat(a.items, b.n))
    ELSE IF b.t = "list" /\ a.t \in {"int", "bool"} THEN ListV(Repeat(b.items, a.n))
    ELSE ErrV("TypeError")

\* a / b: true division, the quotient kept to the tenth
DivV(a, b) ==
    IF IsErr(a) THEN a
    ELSE IF IsErr(b) THEN b
    ELSE IF ~(IsNum(a) /\ IsNum(b)) THEN ErrV("TypeError")
    ELSE IF b.n = 0 THEN ErrV("ZeroDivisionError")
    ELSE LET an == IF a.t = "float" THEN a.n ELSE a.n * 10
             bn == IF b.t = "float" THEN b.n ELSE b.n * 10
         IN  FloatV((an * 10) \div bn)

\* a > 0
GtZero(a) ==
    IF IsErr(a) THEN a
    ELSE IF IsNum(a) THEN BoolV(IF a.n > 0 THEN 1 ELSE 0)
    ELSE ErrV("TypeError")

\* not defined in renderer/render_report.py; confidence values render as a
\* percentage with one decimal place
fmt_confidence(v) == fmt_percent(v)

\* the entries of the normalized dict literal that are constants
NormalizedConstants ==
    [
    r1_title |-> StrV(<<"optimize meeting structure">>),
    r1_description |-> StrV(<<"implement structured meeting formats with clear agendas and outcomes">>),
    r1_effort |-> StrV(<<"low">>), r1_impact |-> StrV(<<"high">>),
    r1_timeline |-> StrV(<<"2 weeks">>), r1_rice |-> IntV(8),
    r1_linked_finding |-> StrV(<<"f1">>),
    r2_title |-> StrV(<<"establish async communication">>),
    r2_description |-> StrV(<<"implement async-first communication protocols">>),
    r2_effort |-> StrV(<<"medium">>), r2_impact |-> StrV(<<"high">>),
    r2_timeline |-> StrV(<<"4 weeks">>), r2_rice |-> IntV(6),
    r2_linked_finding |-> StrV(<<"f2">>), r3_title |-> StrV(<<"automate routine tasks">>),
    r3_description |-> StrV(<<"implement automation for administrative processes">>),
    r3_effort |-> StrV(<<"medium">>), r3_impact |-> StrV(<<"medium">>),
    r3_timeline |-> StrV(<<"6 weeks">>), r3_rice |-> IntV(4),
    r3_linked_finding |-> StrV(<<"f3">>), r4_title |-> StrV(<<"create decision matrix">>),
    r4_description |-> StrV(<<"establish clear decision ownership protocols">>),
    r4_effort |-> StrV(<<"low">>), r4_impact |-> StrV(<<"high">>),
    r4_timeline |-> StrV(<<"1 week">>), r4_rice |-> IntV(9),
    r4_linked_finding |-> StrV(<<"f4">>), r5_title |-> StrV(<<"integrate project systems">>),
    r5_description |-> StrV(<<"consolidate project tracking platforms">>),
    r5_effort |-> StrV(<<"high">>), r5_impact |-> StrV(<<"medium">>),
    r5_timeline |-> StrV(<<"8 weeks">>), r5_rice |-> IntV(3),
    r5_linked_finding |-> StrV(<<"f5">>), break_even_timeline |-> StrV(<<"3-4 months">>),
    time_productive |-> IntV(45), time_meetings |-> IntV(25), time_admin |-> IntV(20),
    time_context_switch |-> IntV(10), workflow1_r |-> StrV(<<"pm">>),
    workflow1_a |-> StrV(<<"cto">>), workflow1_s |-> StrV(<<"design team">>),
    workflow1_c |-> StrV(<<"account">>), workflow1_i |-> StrV(<<"ops">>),
    workflow2_r |-> StrV(<<"pm">>), workflow2_a |-> StrV(<<"cto">>),
    workflow2_s |-> StrV(<<"design team">>), workflow2_c |-> StrV(<<"account">>),
    workflow2_i |-> StrV(<<"ops">>), workflow3_r |-> StrV(<<"pm">>),
    workflow3_a |-> StrV(<<"cto">>), workflow3_s |-> StrV(<<"design team">>),
    workflow3_c |-> StrV(<<"account">>), workflow3_i |-> StrV(<<"ops">>),
    workflow4_r |-> StrV(<<"pm">>), workflow4_a |-> StrV(<<"cto">>),
    workflow4_s |-> StrV(<<"design team">>), workflow4_c |-> StrV(<<"account">>),
    workflow4_i |-> StrV(<<"ops">>), workflow5_r |-> StrV(<<"pm">>),
    workflow5_a |-> StrV(<<"cto">>), workflow5_s |-> StrV(<<"design team">>),
    workflow5_c |-> StrV(<<"account">>), workflow5_i |-> StrV(<<"ops">>),
    f1_issue |-> StrV(<<"meeting inefficiency">>),
    f1_evidence |-> StrV(<<"excessive meeting time without clear outcomes">>),
    f1_impact |-> StrV(<<"high">>),
    f1_root_cause |-> StrV(<<"lack of structured meeting formats">>),
    f1_preview |-> StrV(<<"implement structured meeting protocols">>),
    f2_issue |-> StrV(<<"communication delays">>),
    f2_evidence |-> StrV(<<"context switching overhead">>), f2_impact |-> StrV(<<"high">>),
    f2_root_cause |-> StrV(<<"async communication gaps">>),
    f2_preview |-> StrV(<<"establish async communication protocols">>),
    f3_issue |-> StrV(<<"administrative overhead">>),
    f3_evidence |-> StrV(<<"routine task repetition">>), f3_impact |-> StrV(<<"medium">>),
    f3_root_cause |-> StrV(<<"manual process inefficiency">>),
    f3_preview |-> StrV(<<"implement automation tools">>),
    f4_issue |-> StrV(<<"decision bottlenecks">>),
    f4_evidence |-> StrV(<<"delayed decision making">>), f4_impact |-> StrV(<<"high">>),
    f4_root_cause |-> StrV(<<"unclear decision ownership">>),
    f4_preview |-> StrV(<<"create decision matrix">>),
    f5_issue |-> StrV(<<"system fragmentation">>),
    f5_evidence |-> StrV(<<"multiple tracking platforms">>), f5_impact |-> StrV(<<"medium">>),
    f5_root_cause |-> StrV(<<"lack of integrated systems">>),
    f5_preview |-> StrV(<<"consolidate project tracking">>), efficiency_planning |-> IntV(7),
    efficiency_execution |-> IntV(6), efficiency_review |-> IntV(8),
    efficiency_communication |-> IntV(5),
    workflow_bottlenecks |-> StrV(<<"meeting overload and context switching">>),
    archetype_adjustment |-> FloatV(12), sensitivity_25_margin |-> FloatV(150),
    sensitivity_25_hours |-> FloatV(40), sensitivity_50_margin |-> FloatV(200),
    sensitivity_50_hours |-> FloatV(60), sensitivity_75_margin |-> FloatV(250),
    sensitivity_75_hours |-> FloatV(80), savings_month1 |-> FloatV(50),
    savings_month3 |-> FloatV(150), savings_month6 |-> FloatV(250),
    savings_month12 |-> FloatV(350),
    critical_path |-> StrV(<<"meeting optimization -> async protocols -> automation">>),
    milestone_schedule |-> StrV(<<"week 1-2: meetings, week 3-6: async, week 7-12: automation">>),
    roadmap_30_days |-> StrV(<<"implement structured meeting formats and async protocols">>),
    roadmap_60_days |-> StrV(<<"deploy automation tools and decision matrix">>),
    roadmap_90_days |-> StrV(<<"integrate systems and optimize workflows">>),
    baseline_ontime |-> FloatV(650), target_ontime |-> FloatV(850),
    owner_ontime |-> StrV(<<"pm">>), baseline_latency |-> FloatV(400),
    target_latency |-> FloatV(200), owner_latency |-> StrV(<<"cto">>),
    baseline_variance |-> FloatV(250), target_variance |-> FloatV(100),
    owner_variance |-> StrV(<<"pm">>), baseline_change |-> FloatV(150),
    target_change |-> FloatV(50), owner_change |-> StrV(<<"account">>),
    next_steps |-> StrV(<<"schedule implementation kickoff meeting and assign team leads">>)
    ]

\* the entries of the normalized dict literal computed from raw_data
NormalizedComputed(raw) ==
    LET responses == RawGet(raw, "responses", DictV(<<>>))
        context == RawGet(raw, "context", DictV(<<>>))
        result == RawGet(raw, "result", DictV(<<>>))
        metrics == RawGet(raw, "metrics", DictV(<<>>))
        archetype == GetV(result, "archetype", DictV(<<>>))
        mix == GetV(archetype, "mix", DictV(<<>>))
        axes == GetV(GetV(result, "scores", DictV(<<>>)), "axes", DictV(<<>>))
        team_size == GetV(context, "team_size", IntV(1))
        hourly_rate == GetV(context, "hourly_rate", IntV(100))
        annual_cost == GetV(metrics, "annual_cost", IntV(0))
        overhead == MulV(GetV(metrics, "overhead_index", IntV(0)), IntV(100))
        quarter == DivV(team_size, FloatV(40))
        primary == GetV(archetype, "primary", StrV(<<"unknown">>))
        confidence == GetV(archetype, "confidence", IntV(0))
        positive == GtZero(annual_cost)
    IN  [company_name |-> RawGet(raw, "company_name", StrV(<<"your organization">>)),
         assessment_date |-> RawGet(raw, "assessment_date", StrV(<<"unknown">>)),
         report_id |-> RawGet(raw, "report_id", StrV(<<"unknown">>)),
         assessment_id |-> RawGet(raw, "assessment_id", StrV(<<"unknown">>)),
         completion_date |-> RawGet(raw, "completion_date", StrV(<<"unknown">>)),
         customer_email |-> RawGet(raw, "customer_email", StrV(<<"unknown">>)),
         archetype_primary |-> primary,
         archetype_confidence |-> confidence,
         archetype_tagline |-> GetV(archetype, "tagline", StrV(<<>>)),
         archetype_mix_primary |-> GetV(mix, "primary", IntV(0)),
         archetype_mix_secondary |-> GetV(mix, "secondary", IntV(0)),
         archetype_mix_tertiary |-> GetV(mix, "tertiary", IntV(0)),
         archetype_mix_quaternary |-> GetV(mix, "quaternary", IntV(0)),
         archetype_secondary |-> GetV(archetype, "secondary", StrV(<<"unknown">>)),
         archetype_tertiary |-> GetV(archetype, "tertiary", StrV(<<"unknown">>)),
         archetype_quaternary |-> GetV(archetype, "quaternary", StrV(<<"unknown">>)),
         axis_structure |-> GetV(axes, "structure", IntV(0)),
         axis_collaboration |-> GetV(axes, "collaboration", IntV(0)),
         axis_scope |-> GetV(axes, "scope", IntV(0)),
         axis_tempo |-> GetV(axes, "tempo", IntV(0)),
         overhead_percentage |-> overhead,
         annual_cost |-> annual_cost,
         hours_lost_ppw |-> GetV(metrics, "hours_lost_ppw", IntV(0)),
         team_size |-> team_size,
         meeting_load |-> GetV(context, "meeting_load", StrV(<<"medium">>)),
         hourly_rate |-> hourly_rate,
         platform |-> GetV(context, "platform", StrV(<<"unknown">>)),
         team_multiplier |-> team_size,
         confidence_score |-> confidence,
         response_count |->
             IF responses.t = "dict" THEN IntV(Cardinality(DOMAIN responses.items))
             ELSE IntV(0),
         top_findings |->
             GetV(GetV(result, "recommendations", DictV(<<>>)), "summary",
                  ListV(<< <<"assessment completed successfully">>,
                           <<"productivity improvements identified">>,
                           <<"implementation roadmap available">> >>)),
         radar_insights |->
             IF IsErr(primary) THEN primary
             ELSE IF IsErr(confidence) THEN confidence
             ELSE StrV(<<"archetype analysis shows ">> \o StrOf(primary)
                       \o <<" tendencies with ">> \o fmt_confidence(confidence)
                       \o <<" confidence">>),
         base_overhead |-> overhead,
         weekly_cost |->
             IF IsErr(positive) THEN positive
             ELSE IF positive.n = 1 THEN DivV(annual_cost, IntV(52))
             ELSE MulV(MulV(hourly_rate, IntV(5)), team_size),
         sensitivity_25_cost |-> MulV(FloatV(1800000), quarter),
         sensitivity_50_cost |-> MulV(FloatV(2400000), quarter),
         sensitivity_75_cost |-> MulV(FloatV(3000000), quarter),
         conservative_5yr |-> MulV(FloatV(4500000), quarter),
         realistic_5yr |-> MulV(FloatV(6000000), quarter),
         optimistic_5yr |-> MulV(FloatV(7500000), quarter)]

\* the keys of the normalized dict literal, in the order it lists them
NormalizedKeys ==
    <<"company_name", "assessment_date", "report_id", "assessment_id", "completion_date",
      "customer_email", "archetype_primary", "archetype_confidence", "archetype_tagline",
      "archetype_mix_primary", "archetype_mix_secondary", "archetype_mix_tertiary",
      "archetype_mix_quaternary", "archetype_secondary", "archetype_tertiary",
      "archetype_quaternary", "axis_structure", "axis_collaboration", "axis_scope",
      "axis_tempo", "overhead_percentage", "annual_cost", "hours_lost_ppw", "team_size",
      "meeting_load", "hourly_rate", "platform", "r1_title", "r1_description", "r1_effort",
      "r1_impact", "r1_timeline", "r1_rice", "r1_linked_finding", "r2_title",
      "r2_description", "r2_effort", "r2_impact", "r2_timeline", "r2_rice",
      "r2_linked_finding", "r3_title", "r3_description", "r3_effort", "r3_impact",
      "r3_timeline", "r3_rice", "r3_linked_finding", "r4_title", "r4_description",
      "r4_effort", "r4_impact", "r4_timeline", "r4_rice", "r4_linked_finding", "r5_title",
      "r5_description", "r5_effort", "r5_impact", "r5_timeline", "r5_rice",
      "r5_linked_finding", "break_even_timeline", "team_multiplier", "confidence_score",
      "response_count", "top_findings", "radar_insights", "time_productive", "time_meetings",
      "time_admin", "time_context_switch", "workflow1_r", "workflow1_a", "workflow1_s",
      "workflow1_c", "workflow1_i", "workflow2_r", "workflow2_a", "workflow2_s",
      "workflow2_c", "workflow2_i", "workflow3_r", "workflow3_a", "workflow3_s",
      "workflow3_c", "workflow3_i", "workflow4_r", "workflow4_a", "workflow4_s",
      "workflow4_c", "workflow4_i", "workflow5_r", "workflow5_a", "workflow5_s",
      "workflow5_c", "workflow5_i", "f1_issue", "f1_evidence", "f1_impact", "f1_root_cause",
      "f1_preview", "f2_issue", "f2_evidence", "f2_impact", "f2_root_cause", "f2_preview",
      "f3_issue", "f3_evidence", "f3_impact", "f3_root_cause", "f3_preview", "f4_issue",
      "f4_evidence", "f4_impact", "f4_root_cause", "f4_preview", "f5_issue", "f5_evidence",
      "f5_impact", "f5_root_cause", "f5_preview", "efficiency_planning",
      "efficiency_execution", "efficiency_review", "efficiency_communication",
      "workflow_bottlenecks", "base_overhead", "archetype_adjustment", "weekly_cost",
      "sensitivity_25_margin", "sensitivity_25_cost", "sensitivity_25_hours",
      "sensitivity_50_margin", "sensitivity_50_cost", "sensitivity_50_hours",
      "sensitivity_75_margin", "sensitivity_75_cost", "sensitivity_75_hours",
      "conservative_5yr", "realistic_5yr", "optimistic_5yr", "savings_month1",
      "savings_month3", "savings_month6", "savings_month12", "critical_path",
      "milestone_schedule", "roadmap_30_days", "roadmap_60_days", "roadmap_90_days",
      "baseline_ontime", "target_ontime", "owner_ontime", "baseline_latency",
      "target_latency", "owner_latency", "baseline_variance", "target_variance",
      "owner_variance", "baseline_change", "target_change", "owner_change", "next_steps">>

\* the items of the normalized dict, as the (key, value) pairs to_report_fields iterates
ItemsOf(d) == [i \in 1..Len(NormalizedKeys) |-> <<NormalizedKeys[i], d[NormalizedKeys[i]]>>]

NormRaised(kind, detail) == [raised |-> TRUE, kind |-> kind, detail |-> detail, value |-> <<>>]
NormReturned(d) == [raised |-> FALSE, kind |-> "", detail |-> <<>>, value |-> d]

validate_and_normalize_assessment_data(raw) ==
    LET failed == ImportFailures(SchemaExports, <<"to_report_fields", "validate_template_fields">>)
                  \o ImportFailures(RenderReportExports, <<"fmt_confidence">>)
        missing_fields == SelectSeq(required_fields, LAMBDA field : field \notin DOMAIN raw)
    IN  IF failed # <<>> THEN NormRaised("ImportError", <<failed[1]>>)
        ELSE IF missing_fields # <<>> THEN NormRaised("ValueError", missing_fields)
        ELSE LET computed == NormalizedComputed(raw)
                 broken == {f \in DOMAIN computed : IsErr(computed[f])}
             IN  IF broken # {}
                 THEN NormRaised((computed[CHOOSE f \in broken : TRUE]).t, <<>>)
                 ELSE LET r == validate_template_fields(
                                   to_report_fields(ItemsOf(computed @@ NormalizedConstants)))
                      IN  IF ~r.ok
                          THEN NormRaised("ValueError", <<"Template field validation failed">>)
                          ELSE NormReturned(r.data)

\* Inputs of the normalizer specification
StoredAssessment ==
    [responses |-> DictV([q1 |-> StrV(<<"a">>), q2 |-> StrV(<<"b">>)]),
     context |-> DictV([team_size |-> IntV(10), hourly_rate |-> IntV(85)]),
     result |-> DictV([archetype |-> DictV([primary |-> StrV(<<"architect">>),
                                             confidence |-> FloatV(855)])]),
     metrics |-> DictV([annual_cost |-> IntV(52000), hours_lost_ppw |-> FloatV(61)]),
     company_name |-> StrV(<<"acme">>),
     assessment_date |-> StrV(<<"Jan 01, 2025">>),
     report_id |-> StrV(<<"report-1">>)]

\* the rows assess() stores: the context as submitted, its team_size one of
\* the band labels, and the three metrics
AssessStoredRows ==
    {[responses |-> DictV([q1 |-> IntV(1), q2 |-> IntV(0)]),
      context |-> DictV([team_size |-> StrV(<<band>>), hourly_rate |-> IntV(150),
                         meeting_load |-> StrV(<<"moderate">>)]),
      result |-> DictV([archetype |-> DictV([primary |-> StrV(<<"architect">>),
                                              confidence |-> FloatV(855)])]),
      metrics |-> DictV([hours_lost_ppw |-> FloatV(36), annual_cost |-> FloatV(2808000),
                         overhead_index |-> FloatV(7)])] :
        band \in {"solo", "6-15"}}

RawInputs ==
    {[k \in S |-> StoredAssessment[k]] : S \in SUBSET DOMAIN StoredAssessment}
        \cup AssessStoredRows

\* the metadata api_stripe_webhook adds to the stored assessment
WebhookMetadata ==
    [company_name |-> StrV(<<"your organization">>),
     assessment_date |-> StrV(<<"Jan 02, 2025">>),
     report_id |-> StrV(<<"report-1-20250102">>),
     assessment_id |-> StrV(<<"1">>),
     completion_date |-> StrV(<<"2025-01-02">>),
     customer_email |-> StrV(<<"a@b.c">>)]

NormInit ==
    /\ raw_data \in RawInputs
    /\ norm_pc = "start"
    /\ norm_out = NormReturned(<<>>)
    /\ response = 0
    /\ NormOnly

\* a direct call
ValidateAndNormalize ==
    /\ norm_pc = "start"
    /\ norm_out' = validate_and_normalize_assessment_data(raw_data)
    /\ norm_pc' = "done"
    /\ UNCHANGED <<raw_data, response, notNorm>>

\* api_stripe_webhook from "add metadata" to the call's outcome: 400 on
\* ValueError, 500 on any other exception, 200 when the pipeline went on
WebhookNormalize ==
    /\ norm_pc = "start"
    /\ LET assessment_data == WebhookMetadata @@ raw_data
           r == validate_and_normalize_assessment_data(assessment_data)
       IN  /\ raw_data' = assessment_data
           /\ norm_out' = r
           /\ response' = IF r.raised /\ r.kind = "ValueError" THEN 400
                          ELSE IF r.raised THEN 500
                          ELSE 200
    /\ norm_pc' = "webhook_done"
    /\ UNCHANGED notNorm

NormNext == ValidateAndNormalize \/ WebhookNormalize

SpecNormalize == NormInit /\ [][NormNext]_vars

---------------------------------------------------------------------------
\* Claims about the normalizer entry point

MissingRequired(raw) == SelectSeq(required_fields, LAMBDA field : field \notin DOMAIN raw)

\* C8: whenever a required field (responses, context, result, metrics,
\* company_name, assessment_date, report_id) is absent from the payload,
\* validate_and_normalize_assessment_data fails with an error that names the
\* missing fields.
C8_MissingRequiredNamed ==
    (norm_pc \in {"done", "webhook_done"} /\ MissingRequired(raw_data) # <<>>)
        => /\ norm_out.raised
           /\ norm_out.kind = "ValueError"
           /\ norm_out.detail = MissingRequired(raw_data)

---------------------------------------------------------------------------
\* BrandLinter (renderer/lint_report.py)
\*
\* An HTML text is a sequence of lexemes in which every tag is one lexeme
\* and every other lexeme holds no "<".  The sign of multiplication in the
\* cost formula lines is written "x".

PageBreak == "<div class=\"page-break\"></div>"

\* the lexemes that hold one match of class="page-break"
PageBreakLexemes == {PageBreak}

\* the lexemes that match page-break-before:\s*always
CssBreakLexemes == {"page-break-before: always", "page-break-before:always"}

\* the lexemes that match <!--\s*p\d+\s*-->
PageCommentLexemes == {"<!-- p2 -->", "<!--p3-->"}

\* the lexemes that hold one match of class="[^"]*teal-accent[^"]*"
AccentLexemes == {"<span class=\"teal-accent\">", "<h2 class=\"teal-accent\">"}

\* the lexemes that match <name[^>]*> for each element name a pattern opens
OpenTags ==
    [h1 |-> {"<h1>"},
     h2 |-> {"<h2>", "<h2 class=\"teal-accent\">"},
     h3 |-> {"<h3>"},
     ul |-> {"<ul>"},
     figure |-> {"<figure>"},
     figcaption |-> {"<figcaption>", "<figcaption class=\"caption\">"},
     table |-> {"<table>", "<table class=\"data\">"},
     tr |-> {"<tr>"},
     td |-> {"<td>"},
     th |-> {"<th>", "<th scope=\"col\">", "<thead>"},
     svg |-> {"<svg>"}]

\* the lexemes made of whitespace only; the two runs of spaces are the
\* indentation of the document that create_html_document writes
Whitespace == {" ", "\n", "\t", "    ", "        "}

\* the lexemes whose first, and whose last, character is a word character
\* (\w); every lexeme not named in a table of this section is a plain word
NonWordStart ==
    {"$", "{", "}", "%", ".", ",", ":", ";", "-", "|", "#", "*", "![", "](components/", ")",
     " hours x ", " x ", " people = ", " x 52 weeks = ", "(em-dash) so what",
     "\" alt=\"", "\" class=\"chart\">"} \cup Whitespace
NonWordEnd ==
    {"$", "{", "}", "%", ".", ",", ":", ";", "-", "|", "#", "*", "![", "](components/", ")",
     " hours x ", " x ", " people = ", " x 52 weeks = ", "(em-dash)", "weekly cost: ",
     "annual cost: ", "cost ($)", "owner:", "\" alt=\"", "\" class=\"chart\">"}
    \cup Whitespace

IsMarkup(l) ==
    \/ l \in PageBreakLexemes \cup PageCommentLexemes \cup AccentLexemes
    \/ \E nm \in DOMAIN OpenTags : l \in OpenTags[nm]
    \/ l \in {"<p>", "</p>", "</h1>", "</h2>", "</span>", "</figure>", "</figcaption>",
              "<img>", "</table>", "</thead>", "</tr>", "</td>", "</th>", "</svg>",
              "<title>", "</title>", "<desc>", "</desc>", "<ul>", "</ul>", "<li>", "</li>",
              "<strong>", "</strong>", "<style>", "</style>", "<body>", "</body>",
              "</h3>", "<em>", "</em>", "<tbody>", "</tbody>", "<!DOCTYPE html>",
              "<html lang=\"en\">", "</html>", "<head>", "</head>",
              "<meta charset=\"UTF-8\">",
              "<meta name=\"viewport\" content=\"width=device-width, initial-scale=1.0\">",
              "<!-- autogenerated by renderer; do not edit -->",
              "<img src=\"templates/components/"}

StartsWithWord(l) == ~IsMarkup(l) /\ l \notin NonWordStart
EndsWithWord(l) == ~IsMarkup(l) /\ l \notin NonWordEnd

CountLex(t, S) == Cardinality({i \in 1..Len(t) : t[i] \in S})

MaxOf2(a, b) == IF a >= b THEN a ELSE b

\* one entry of errors or warnings: the check that wrote it, the page,
\* figure, row, table or image it is about, a count, and the texts it quotes
Finding(check, at, n, text) == [check |-> check, at |-> at, n |-> n, text |-> text]

_check_unresolved_placeholders(h) ==
    LET unresolved == FindPlaceholders(h, 1)
    IN  IF unresolved # <<>>
        THEN <<Finding("unresolved placeholders", 0, Len(unresolved), unresolved)>>
        ELSE <<>>

\* re.findall(r"\d+%%", text), from position i
RECURSIVE DoublePercents(_, _)
DoublePercents(t, i) ==
    LET a == FirstIn({j \in i..Len(t) :
                         IsDigit(t[j]) /\ HasAt(t, DigEnd(t, j), <<"%", "%">>)})
    IN  IF a = 0 THEN <<>>
        ELSE <<SubSeq(t, a, DigEnd(t, a) + 1)>> \o DoublePercents(t, DigEnd(t, a) + 2)

_check_double_percentages(h) ==
    LET double_percentages == DoublePercents(h, 1)
    IN  IF double_percentages # <<>>
        THEN <<Finding("double percentages", 0, Len(double_percentages), double_percentages)>>
        ELSE <<>>

PageCountWithoutFirstPage(h) == CountLex(h, PageBreakLexemes)

\* the page count _check_page_count computes
PageCount(h) ==
    LET page_breaks == CountLex(h, PageBreakLexemes)
        css_page_breaks == CountLex(h, CssBreakLexemes)
        h2_count == CountLex(h, OpenTags.h2)
        p_h2_count == Cardinality({i \in 1..(Len(h) - 1) :
                                      h[i] = "<p>" /\ h[i + 1] \in OpenTags.h2})
    IN  IF page_breaks > 0 THEN page_breaks + 1
        ELSE IF css_page_breaks > 0 THEN css_page_breaks + 1
        ELSE MaxOf2(h2_count, p_h2_count)

_check_page_count(h) ==
    LET page_count == PageCount(h)
    IN  IF page_count # 12
        THEN <<Finding("page count", CountLex(h, PageBreakLexemes), page_count, <<>>)>>
        ELSE <<>>

\* re.split on the page boundaries: the accents of section j (from 1)
SectionAccents(h, j) ==
    LET bounds == {i \in 1..Len(h) : h[i] \in CssBreakLexemes \cup PageCommentLexemes}
    IN  Cardinality({i \in 1..Len(h) :
                        /\ h[i] \in AccentLexemes
                        /\ Cardinality({b \in bounds : b < i}) = j - 1})

_check_teal_accent_per_page(h) ==
    LET sections == CountLex(h, CssBreakLexemes \cup PageCommentLexemes) + 1
        over == SelectSeq([j \in 1..sections |-> j], LAMBDA j : SectionAccents(h, j) > 1)
    IN  [k \in 1..Len(over) |-> Finding("teal accents", over[k], SectionAccents(h, over[k]), <<>>)]

\* re.search(r"\brasci\b", text, re.IGNORECASE)
_check_rasci_references(h) ==
    IF \E i \in 1..Len(h) :
           /\ h[i] \in {"rasci", "RASCI", "Rasci"}
           /\ (i = 1 \/ ~EndsWithWord(h[i - 1]))
           /\ (i = Len(h) \/ ~StartsWithWord(h[i + 1]))
    THEN <<Finding("rasci", 0, 0, <<>>)>>
    ELSE <<>>

\* the captions inject_image_paths knows, by image name; each is one lexeme
image_captions ==
    ("radar.svg" :>
        "what it shows: behavioral preferences across 6-axis radar / so what: identifies systematic vs collaborative tendencies")
    @@ ("time-pie.svg" :>
        "what it shows: current time distribution across work activities / so what: identifies productivity bottlenecks and optimization opportunities")
    @@ ("handoff-flow.svg" :>
        "what it shows: workflow handoffs and decision points / so what: reveals communication gaps and process inefficiencies")
    @@ ("workflow-heatmap.svg" :>
        "what it shows: process efficiency scores across key activities / so what: highlights areas needing immediate attention")
    @@ ("swimlane.svg" :>
        "what it shows: workflow handoffs and decision points / so what: reveals communication gaps and process inefficiencies")
    @@ ("integration-map.svg" :>
        "what it shows: system connections and data flow / so what: identifies integration gaps and optimization opportunities")
    @@ ("savings-line-12mo.svg" :>
        "what it shows: projected savings over 12-month implementation / so what: demonstrates clear path to positive roi")
    @@ ("savings-line-5yr.svg" :>
        "what it shows: projected savings over 5-year implementation (units: $000s) / so what: demonstrates long-term roi and break-even analysis")
    @@ ("impact-matrix.svg" :>
        "what it shows: initiatives mapped by impact vs effort / so what: prioritizes quick wins and strategic investments")
    @@ ("mini-gantt.svg" :>
        "what it shows: phased implementation timeline with milestones / so what: provides clear execution path with dependencies")

\* the inspected words a lexeme holds, after lower()
WordsIn(l) ==
    CASE l \in {"so what", "So What", "(em-dash) so what"} -> {"so what"}
      [] l = image_captions["savings-line-5yr.svg"] -> {"so what", "$"}
      [] l \in {image_captions[nm] : nm \in DOMAIN image_captions} -> {"so what"}
      [] l \in {"$", "%", "hours", "days", "weeks", "months", "name", "title",
                "description", "scenario"} -> {l}
      [] l = "cost ($)" -> {"$"}
      [] l = "Hours" -> {"hours"}
      [] l = "Name" -> {"name"}
      [] l = "Title" -> {"title"}
      [] l = " hours x " -> {"hours"}
      [] l = " x 52 weeks = " -> {"weeks"}
      [] OTHER -> {}

\* any(w in text.lower() for w in words)
HasAnyWord(text, words) == \E i \in 1..Len(text) : WordsIn(text[i]) \cap words # {}

\* re.findall(r"<name[^>]*>(.*?)</name>", text, re.DOTALL), from position i
RECURSIVE Elements(_, _, _, _)
Elements(t, opens, close, i) ==
    LET a == FirstIn({j \in i..Len(t) : t[j] \in opens})
        b == IF a = 0 THEN 0 ELSE FirstIn({j \in (a + 1)..Len(t) : t[j] = close})
    IN  IF b = 0 THEN <<>>
        ELSE <<SubSeq(t, a + 1, b - 1)>> \o Elements(t, opens, close, b + 1)

\* <name[^>]*>([^<]+)</name> tried at position a: the index of the closing
\* tag, or 0
TextElementEnd(t, opens, close, a) ==
    IF t[a] \notin opens THEN 0
    ELSE LET b == FirstIn({j \in (a + 1)..Len(t) : IsMarkup(t[j])})
         IN  IF b > a + 1 /\ t[b] = close THEN b ELSE 0

\* re.findall(r"<name[^>]*>([^<]+)</name>", text), from position i
RECURSIVE TextElements(_, _, _, _)
TextElements(t, opens, close, i) ==
    LET a == FirstIn({j \in i..Len(t) : TextElementEnd(t, opens, close, j) > 0})
    IN  IF a = 0 THEN <<>>
        ELSE <<SubSeq(t, a + 1, TextElementEnd(t, opens, close, a) - 1)>>
                 \o TextElements(t, opens, close, TextElementEnd(t, opens, close, a) + 1)

FigureFindings(figure, i) ==
    IF \A j \in 1..Len(figure) : figure[j] # "<figcaption>"
    THEN <<Finding("figure missing figcaption", i, 0, <<>>)>>
    ELSE LET captions == TextElements(figure, OpenTags.figcaption, "</figcaption>", 1)
         IN  IF captions # <<>> /\ ~HasAnyWord(captions[1], {"so what"})
             THEN <<Finding("figure caption missing so what", i, 0, <<>>)>>
             ELSE <<>>

_check_figure_captions(h) ==
    LET figures == Elements(h, OpenTags.figure, "</figure>", 1)
    IN  Concat([i \in 1..Len(figures) |-> FigureFindings(figures[i], i)])

\* len([r for r in content.split(",") if r.strip()])
NonBlankParts(cell) ==
    LET commas == {j \in 1..Len(cell) : cell[j] = ","}
        inked == {j \in 1..Len(cell) : cell[j] \notin Whitespace \cup {","}}
    IN  Cardinality({Cardinality({c \in commas : c < j}) : j \in inked})

RowFindings(row, i) ==
    IF \E j \in 1..Len(row) : row[j] = "<th>" THEN <<>>
    ELSE LET cells == TextElements(row, OpenTags.td, "</td>", 1)
         IN  IF Len(cells) >= 5
             THEN LET r_count == NonBlankParts(cells[1])
                      a_count == NonBlankParts(cells[2])
                  IN  (IF a_count # 1
                       THEN <<Finding("RASIC accountable", i, a_count, <<>>)>> ELSE <<>>)
                      \o (IF r_count = 0
                          THEN <<Finding("RASIC responsible", i, 0, <<>>)>> ELSE <<>>)
             ELSE <<>>

_check_rasic_matrix_schema(h) ==
    LET table_rows == Elements(h, OpenTags.tr, "</tr>", 1)
    IN  Concat([i \in 1..Len(table_rows) |-> RowFindings(table_rows[i], i)])

\* re.findall(r"\$r\d+_rice", text), from position i
RECURSIVE RiceTokens(_, _)
RiceTokens(t, i) ==
    LET a == FirstIn({j \in i..Len(t) :
                         /\ HasAt(t, j, <<"$", "r">>)
                         /\ DigEnd(t, j + 2) > j + 2
                         /\ HasAt(t, DigEnd(t, j + 2), <<"_", "rice">>)})
    IN  IF a = 0 THEN <<>>
        ELSE <<SubSeq(t, a, DigEnd(t, a + 2) + 1)>> \o RiceTokens(t, DigEnd(t, a + 2) + 2)

_check_rice_tokens(h) ==
    LET rice_tokens == RiceTokens(h, 1)
    IN  IF rice_tokens # <<>>
        THEN <<Finding("rice tokens", 0, Len(rice_tokens), rice_tokens)>>
        ELSE <<>>

\* first index >= i whose lexeme is outside S
SkipAll(t, i, S) ==
    LET R == {j \in i..Len(t) : t[j] \notin S}
    IN  IF R = {} THEN Len(t) + 1 ELSE MinOf(R)

\* \n\|\s*[-:]+\s*\| tried at position i: the index of the closing bar, or 0
RawTableEnd(t, i) ==
    IF HasAt(t, i, <<"\n", "|">>)
    THEN LET a == SkipAll(t, i + 2, Whitespace)
             b == SkipAll(t, a, {"-", ":"})
             c == SkipAll(t, b, Whitespace)
         IN  IF b > a /\ c <= Len(t) /\ t[c] = "|" THEN c ELSE 0
    ELSE 0

\* len(re.findall(raw_table_pattern, text)), from position i
RECURSIVE RawTableMatches(_, _)
RawTableMatches(t, i) ==
    LET a == FirstIn({j \in i..Len(t) : RawTableEnd(t, j) > 0})
    IN  IF a = 0 THEN 0 ELSE 1 + RawTableMatches(t, RawTableEnd(t, a) + 1)

_check_raw_table_syntax(h) ==
    LET raw_table_matches == RawTableMatches(h, 1)
    IN  IF raw_table_matches > 0 /\ CountLex(h, OpenTags.table) = 0
        THEN <<Finding("raw table syntax", 0, raw_table_matches, <<>>)>>
        ELSE <<>>

DigitVal(c) == CHOOSE n \in 0..9 : DigitLex[n + 1] = c

\* int() of a numeral, its "," and "." skipped
RECURSIVE NatOf(_)
NatOf(ds) ==
    IF ds = <<>> THEN 0
    ELSE LET front == SubSeq(ds, 1, Len(ds) - 1)
             last == ds[Len(ds)]
         IN  IF last \in {",", "."} THEN NatOf(front)
             ELSE NatOf(front) * 10 + DigitVal(last)

RECURSIVE Pow10(_)
Pow10(k) == IF k <= 0 THEN 1 ELSE 10 * Pow10(k - 1)

Abs(x) == IF x < 0 THEN 0 - x ELSE x

\* s is matched as a whole by \d+(?:\.\d+)?
IsDecimal(s) ==
    LET dots == {j \in 1..Len(s) : s[j] = "."}
    IN  /\ Len(s) >= 1
        /\ \A j \in 1..Len(s) : s[j] = "." \/ IsDigit(s[j])
        /\ Cardinality(dots) <= 1
        /\ \A j \in dots : 1 < j /\ j < Len(s)

\* the power of ten that makes the decimal numeral s a natural number
ScaleOf(s) == Pow10(Cardinality({j \in 1..Len(s) : \E k \in 1..(j - 1) : s[k] = "."}))

\* (?:,\d{3})* taken greedily from position q: the index after it
RECURSIVE GroupsEnd(_, _)
GroupsEnd(t, q) ==
    IF /\ q + 3 <= Len(t)
       /\ t[q] = ","
       /\ \A j \in (q + 1)..(q + 3) : IsDigit(t[j])
    THEN GroupsEnd(t, q + 4)
    ELSE q

\* (\d{1,3}(?:,\d{3})*) at the end of a pattern, tried at position p: the
\* index after the match, or 0
CommaNumEnd(t, p) ==
    LET e == DigEnd(t, p)
        d == IF e - p > 3 THEN 3 ELSE e - p
    IN  IF p > Len(t) \/ d = 0 THEN 0 ELSE GroupsEnd(t, p + d)

\* s is matched as a whole by \d{1,3}(?:,\d{3})*
IsCommaNum(s) ==
    \E d \in 1..3 :
        /\ d <= Len(s)
        /\ (Len(s) - d) % 4 = 0
        /\ \A j \in 1..Len(s) :
               IF j > d /\ (j - d) % 4 = 1 THEN s[j] = "," ELSE IsDigit(s[j])

\* Python floats (IEEE 754 binary64, round to nearest, ties to even).  A
\* float is m * 2^e with m below 2^53; m is a natural number of any size,
\* written as its limbs in base 2^15, lowest first, without leading zeros.
\* The values of this section stay clear of overflow and of subnormals.
Limb == 32768

RECURSIVE BigOf(_)
BigOf(n) == IF n = 0 THEN <<>> ELSE <<n % Limb>> \o BigOf(n \div Limb)

RECURSIVE Trim(_)
Trim(a) ==
    IF a # <<>> /\ a[Len(a)] = 0 THEN Trim(SubSeq(a, 1, Len(a) - 1)) ELSE a

LimbAt(a, i) == IF i <= Len(a) THEN a[i] ELSE 0

RECURSIVE BigAddFrom(_, _, _, _)
BigAddFrom(a, b, i, carry) ==
    IF i > Len(a) /\ i > Len(b)
    THEN (IF carry = 0 THEN <<>> ELSE <<carry>>)
    ELSE LET sum == LimbAt(a, i) + LimbAt(b, i) + carry
         IN  <<sum % Limb>> \o BigAddFrom(a, b, i + 1, sum \div Limb)

BigAdd(a, b) == BigAddFrom(a, b, 1, 0)

\* a - b, for a >= b
RECURSIVE BigSubFrom(_, _, _, _)
BigSubFrom(a, b, i, borrow) ==
    IF i > Len(a) THEN <<>>
    ELSE LET d == LimbAt(a, i) - LimbAt(b, i) - borrow
         IN  IF d < 0 THEN <<d + Limb>> \o BigSubFrom(a, b, i + 1, 1)
             ELSE <<d>> \o BigSubFrom(a, b, i + 1, 0)

BigSub(a, b) == Trim(BigSubFrom(a, b, 1, 0))

\* -1, 0 or 1 as a is below, equal to or above b
BigCmp(a, b) ==
    IF Len(a) # Len(b) THEN (IF Len(a) < Len(b) THEN 0 - 1 ELSE 1)
    ELSE LET D == {i \in 1..Len(a) : a[i] # b[i]}
         IN  IF D = {} THEN 0
             ELSE IF a[MaxOf(D)] < b[MaxOf(D)] THEN 0 - 1 ELSE 1

\* a * k + carry, for k below 2^15
RECURSIVE MulSmallFrom(_, _, _, _)
MulSmallFrom(a, k, i, carry) ==
    IF i > Len(a) THEN (IF carry = 0 THEN <<>> ELSE <<carry>>)
    ELSE LET p == a[i] * k + carry
         IN  <<p % Limb>> \o MulSmallFrom(a, k, i + 1, p \div Limb)

MulSmall(a, k) == Trim(MulSmallFrom(a, k, 1, 0))

RECURSIVE BigMul(_, _)
BigMul(a, b) ==
    IF a = <<>> \/ b = <<>> THEN <<>>
    ELSE BigAdd(MulSmall(a, b[1]), Trim(<<0>> \o BigMul(a, Tail(b))))

\* quotient and remainder of a by d, for d below 2^15, from the highest limb
RECURSIVE DivSmallFrom(_, _, _, _)
DivSmallFrom(a, d, i, rem) ==
    IF i = 0 THEN [q |-> <<>>, r |-> rem]
    ELSE LET cur == rem * Limb + a[i]
             rest == DivSmallFrom(a, d, i - 1, cur % d)
         IN  [q |-> rest.q \o <<cur \div d>>, r |-> rest.r]

DivSmall(a, d) ==
    LET res == DivSmallFrom(a, d, Len(a), 0)
    IN  [q |-> Trim(res.q), r |-> res.r]

RECURSIVE Pow2(_)
Pow2(k) == IF k <= 0 THEN 1 ELSE 2 * Pow2(k - 1)

RECURSIVE BitsOf(_)
BitsOf(n) == IF n = 0 THEN 0 ELSE 1 + BitsOf(n \div 2)

BitLen(a) == IF a = <<>> THEN 0 ELSE 15 * (Len(a) - 1) + BitsOf(a[Len(a)])

ShiftLeft(a, k) ==
    IF a = <<>> THEN <<>>
    ELSE [i \in 1..(k \div 15) |-> 0] \o MulSmall(a, Pow2(k % 15))

ShiftRight(a, k) ==
    IF k \div 15 >= Len(a) THEN <<>>
    ELSE DivSmall(SubSeq(a, k \div 15 + 1, Len(a)), Pow2(k % 15)).q

IsOdd(a) == a # <<>> /\ a[1] % 2 = 1

\* q, or q + 1, as the part cut off q is below, at or above one half
RoundNearestEven(q, cmp_half) ==
    IF cmp_half > 0 \/ (cmp_half = 0 /\ IsOdd(q)) THEN BigAdd(q, <<1>>) ELSE q

\* the float nearest to m * 2^e
RoundToFloat(m, e) ==
    LET k == BitLen(m) - 53
        q == ShiftRight(m, k)
        cut == BigSub(m, ShiftLeft(q, k))
    IN  IF k <= 0 THEN [m |-> m, e |-> e]
        ELSE [m |-> RoundNearestEven(q, BigCmp(cut, ShiftLeft(<<1>>, k - 1))), e |-> e + k]

\* the float nearest to n / d cut at 2^(-k), for d below 2^15
RoundQuotient(n, d, k) ==
    LET res == DivSmall(ShiftLeft(BigOf(n), k), d)
    IN  [m |-> RoundNearestEven(res.q, IF 2 * res.r > d THEN 1
                                       ELSE IF 2 * res.r = d THEN 0 ELSE 0 - 1),
         e |-> 0 - k]

\* float(s) of a numeral s with value n / scale, scale a power of ten
FloatOf(n, scale) ==
    LET k == 53 + BitsOf(scale) - BitsOf(n)
        wide == DivSmall(ShiftLeft(BigOf(n), k), scale).q
    IN  IF n = 0 \/ scale = 1 THEN [m |-> BigOf(n), e |-> 0]
        ELSE IF BitLen(wide) > 53 THEN RoundQuotient(n, scale, k - 1)
        ELSE RoundQuotient(n, scale, k)

\* x * y
FloatMul(x, y) == RoundToFloat(BigMul(x.m, y.m), x.e + y.e)

\* abs(n - x) for an int n
FloatAbsDiff(n, x) ==
    LET a == IF x.e >= 0 THEN BigOf(n) ELSE ShiftLeft(BigOf(n), 0 - x.e)
        b == IF x.e >= 0 THEN ShiftLeft(x.m, x.e) ELSE x.m
    IN  RoundToFloat(IF BigCmp(a, b) >= 0 THEN BigSub(a, b) ELSE BigSub(b, a),
                     IF x.e >= 0 THEN 0 ELSE x.e)

\* x > n for an int n
FloatGreater(x, n) ==
    IF x.e >= 0 THEN BigCmp(ShiftLeft(x.m, x.e), BigOf(n)) > 0
    ELSE BigCmp(x.m, ShiftLeft(BigOf(n), 0 - x.e)) > 0

NoMatch == [ok |-> FALSE, hours |-> 0, hours_scale |-> 1, rate |-> 0, rate_scale |-> 1,
            team |-> 0, weekly |-> 0, display |-> 0]

\* The weekly cost formula line, tried at position i.  Each literal of the
\* pattern begins with a character no numeral holds, so a numeral that a
\* literal follows is the whole run of numeral lexemes before it.
WeeklyAt(t, i) ==
    LET a1 == SkipAll(t, i + 1, Digits \cup {"."})
        a2 == SkipAll(t, a1 + 2, Digits \cup {"."})
        a3 == SkipAll(t, a2 + 1, Digits)
        last == CommaNumEnd(t, a3 + 2)
    IN  IF /\ i <= Len(t) /\ t[i] = "weekly cost: "
           /\ IsDecimal(SubSeq(t, i + 1, a1 - 1)) /\ HasAt(t, a1, <<" hours x ", "$">>)
           /\ IsDecimal(SubSeq(t, a1 + 2, a2 - 1)) /\ HasAt(t, a2, <<" x ">>)
           /\ a3 > a2 + 1 /\ HasAt(t, a3, <<" people = ", "$">>)
           /\ last > 0
        THEN [ok |-> TRUE,
              hours |-> NatOf(SubSeq(t, i + 1, a1 - 1)),
              hours_scale |-> ScaleOf(SubSeq(t, i + 1, a1 - 1)),
              rate |-> NatOf(SubSeq(t, a1 + 2, a2 - 1)),
              rate_scale |-> ScaleOf(SubSeq(t, a1 + 2, a2 - 1)),
              team |-> NatOf(SubSeq(t, a2 + 1, a3 - 1)),
              weekly |-> 0,
              display |-> NatOf(SubSeq(t, a3 + 2, last - 1))]
        ELSE NoMatch

\* the annual cost formula line, tried at position i
AnnualAt(t, i) ==
    LET e == SkipAll(t, i + 2, Digits \cup {","})
        last == CommaNumEnd(t, e + 2)
    IN  IF /\ HasAt(t, i, <<"annual cost: ", "$">>)
           /\ IsCommaNum(SubSeq(t, i + 2, e - 1)) /\ HasAt(t, e, <<" x 52 weeks = ", "$">>)
           /\ last > 0
        THEN [ok |-> TRUE, hours |-> 0, hours_scale |-> 1, rate |-> 0, rate_scale |-> 1,
              team |-> 0,
              weekly |-> NatOf(SubSeq(t, i + 2, e - 1)),
              display |-> NatOf(SubSeq(t, e + 2, last - 1))]
        ELSE NoMatch

\* hours_lost_ppw * hourly_rate * team_multiplier, as floats, for a match w
\* of the weekly line
WeeklyCostCalc(w) ==
    FloatMul(FloatMul(FloatOf(w.hours, w.hours_scale), FloatOf(w.rate, w.rate_scale)),
             FloatOf(w.team, 1))

_check_cost_calculations(h) ==
    LET weekly_at == FirstIn({i \in 1..Len(h) : WeeklyAt(h, i).ok})
        annual_at == FirstIn({i \in 1..Len(h) : AnnualAt(h, i).ok})
    IN  IF weekly_at = 0 \/ annual_at = 0
        THEN <<Finding("cost formula lines not found", 0, 0, <<>>)>>
        ELSE LET w == WeeklyAt(h, weekly_at)
                 a == AnnualAt(h, annual_at)
                 weekly_cost_calc == WeeklyCostCalc(w)
                 annual_cost_calc == FloatMul(weekly_cost_calc, FloatOf(52, 1))
             IN  (IF FloatGreater(FloatAbsDiff(w.display, weekly_cost_calc), 1)
                  THEN <<Finding("weekly cost mismatch", 0, w.display, <<>>)>> ELSE <<>>)
                 \o (IF FloatGreater(FloatAbsDiff(a.display, annual_cost_calc), 52)
                     THEN <<Finding("annual cost mismatch", 0, a.display, <<>>)>> ELSE <<>>)
                 \o (IF w.display # a.weekly
                     THEN <<Finding("weekly cost inconsistency", 0, w.display, <<>>)>>
                     ELSE <<>>)

HeaderWarnings(header, i) ==
    IF HasAnyWord(header, {"$", "%", "hours", "days", "weeks", "months"}) THEN <<>>
    ELSE IF /\ \E j \in 1..Len(header) : header[j] \notin Whitespace
            /\ ~HasAnyWord(header, {"name", "title", "description", "scenario"})
    THEN <<Finding("header may be missing units", i, 0, <<header>>)>>
    ELSE <<>>

TableWarnings(table, i) ==
    LET headers == TextElements(table, OpenTags.th, "</th>", 1)
    IN  (IF \A j \in 1..Len(table) : table[j] \notin {"<th>", "<thead>"}
         THEN <<Finding("table missing header row", i, 0, <<>>)>> ELSE <<>>)
        \o Concat([k \in 1..Len(headers) |-> HeaderWarnings(headers[k], i)])

_check_table_headers(h) ==
    LET tables == Elements(h, OpenTags.table, "</table>", 1)
    IN  Concat([i \in 1..Len(tables) |-> TableWarnings(tables[i], i)])

SvgWarnings(svg_content, i) ==
    (IF \A j \in 1..Len(svg_content) : svg_content[j] # "<title>"
     THEN <<Finding("SVG missing title", i, 0, <<>>)>> ELSE <<>>)
    \o (IF \A j \in 1..Len(svg_content) : svg_content[j] # "<desc>"
        THEN <<Finding("SVG missing desc", i, 0, <<>>)>> ELSE <<>>)

_check_image_accessibility(h) ==
    LET svgs == Elements(h, OpenTags.svg, "</svg>", 1)
    IN  Concat([i \in 1..Len(svgs) |-> SvgWarnings(svgs[i], i)])

\* what the ten error checks of lint_html_file append to errors, in order
ErrorChecks(h) ==
    _check_unresolved_placeholders(h)
    \o _check_double_percentages(h)
    \o _check_page_count(h)
    \o _check_teal_accent_per_page(h)
    \o _check_rasci_references(h)
    \o _check_figure_captions(h)
    \o _check_rasic_matrix_schema(h)
    \o _check_rice_tokens(h)
    \o _check_raw_table_syntax(h)
    \o _check_cost_calculations(h)

\* what the two warning checks append to warnings, in order
WarningChecks(h) == _check_table_headers(h) \o _check_image_accessibility(h)

LintVerdictCountingWarnings(self) == Len(self.errors) = 0 /\ Len(self.warnings) = 0

\* the value lint_html_file returns after its checks, for the linter self
LintVerdict(self) == Len(self.errors) = 0

\* Inputs of the linter specification
GoodCostLines ==
    <<"weekly cost: ", "6", ".", "1", " hours x ", "$", "8", "5", " x ", "1", "0",
      " people = ", "$", "5", ",", "1", "8", "5", "\n",
      "annual cost: ", "$", "5", ",", "1", "8", "5", " x 52 weeks = ", "$", "2", "6", "9",
      ",", "6", "2", "0">>

BadCostLines ==
    <<"weekly cost: ", "6", ".", "1", " hours x ", "$", "8", "5", " x ", "1", "0",
      " people = ", "$", "5", ",", "1", "8", "5", "\n",
      "annual cost: ", "$", "4", ",", "0", "0", "0", " x 52 weeks = ", "$", "2", "0", "8",
      ",", "0", "0", "0">>

\* 6.1 hours at $85 for 10 people, with the weekly cost overstated as 5,200
OverstatedCostLines ==
    <<"weekly cost: ", "6", ".", "1", " hours x ", "$", "8", "5", " x ", "1", "0",
      " people = ", "$", "5", ",", "2", "0", "0", "\n",
      "annual cost: ", "$", "5", ",", "2", "0", "0", " x 52 weeks = ", "$", "2", "7", "0",
      ",", "4", "0", "0">>

\* 0.1 hours at $3 for 10 people is 3 a week; 2 is displayed, one unit off
NearCostLines ==
    <<"weekly cost: ", "0", ".", "1", " hours x ", "$", "3", " x ", "1", "0",
      " people = ", "$", "2", "\n",
      "annual cost: ", "$", "2", " x 52 weeks = ", "$", "1", "5", "6">>

LintSegments ==
    { <<PageBreak>>,
      Repeat(<<PageBreak>>, 10),
      <<"page-break-before: always">>,
      <<"<h2>", "Title", "</h2>">>,
      <<"<span class=\"teal-accent\">", "x", "</span>">>,
      <<"5", "%", "%">>,
      <<"<table>", "<tr>", "<td>", "pm", "</td>", "</tr>", "</table>">>,
      <<"<svg>", "<title>", "t", "</title>", "</svg>">> }

RECURSIVE LintBodiesUpTo(_)
LintBodiesUpTo(n) ==
    IF n = 0 THEN {<<>>}
    ELSE LET B == LintBodiesUpTo(n - 1)
         IN  B \cup {b \o seg : b \in B, seg \in LintSegments}

Cells(texts) == Concat([i \in 1..Len(texts) |-> <<"<td>">> \o texts[i] \o <<"</td>">>])

\* fragments that each exercise one check, set in an otherwise clean document
LintFragments ==
    { <<>>,
      Placeholder(<<"x">>),
      <<"rasci">>,
      <<"RASCI", "5">>,
      <<"$", "r", "1", "_", "rice">>,
      <<"\n", "|", "-", "-", "|">>,
      <<"<table>", "<tr>", "<td>", "pm", "</td>", "</tr>", "</table>", "\n", "|", "-", "-", "|">>,
      <<"<figure>", "<img>", "</figure>">>,
      <<"<figure>", "<img>", "<figcaption>", "(em-dash) so what", "</figcaption>", "</figure>">>,
      <<"<figure>", "<img>", "<figcaption>", "plain", "</figcaption>", "</figure>">>,
      <<"<figure>", "<img>", "<figcaption>", "</figcaption>", "</figure>">>,
      <<"<tr>">> \o Cells(<< <<"pm">>, <<"cto">>, <<"x">>, <<"x">>, <<"x">> >>) \o <<"</tr>">>,
      <<"<tr>">> \o Cells(<< <<" ">>, <<"pm", ",", " ", "cto">>, <<"x">>, <<"x">>, <<"x">> >>)
          \o <<"</tr>">>,
      <<"<tr>">> \o Cells(<< <<>>, <<"cto">>, <<"x">>, <<"x">>, <<"x">> >>) \o <<"</tr>">>,
      <<"<table>", "<tr>", "<th>", "cost", "</th>", "<th>", "cost ($)", "</th>", "</tr>",
        "</table>">>,
      <<"<svg>", "</svg>">>,
      <<"<span class=\"teal-accent\">", "x", "</span>", "<!-- p2 -->",
        "<span class=\"teal-accent\">", "x", "</span>">> }

CleanDocument == Repeat(<<PageBreak>>, 11) \o GoodCostLines

AccentedPage == <<"<span class=\"teal-accent\">", "x", "</span>">>

\* twelve pages, parted by eleven page-break markers, one accent on each
TwelveAccentedPages ==
    AccentedPage \o Concat([k \in 1..11 |-> <<PageBreak>> \o AccentedPage]) \o GoodCostLines

LintDocuments ==
    {b \o GoodCostLines : b \in LintBodiesUpTo(MaxLintSegs)}
    \cup {TwelveAccentedPages}
    \cup {Repeat(<<PageBreak>>, 11) \o f \o c :
              f \in LintFragments,
              c \in {GoodCostLines, BadCostLines, OverstatedCostLines, NearCostLines, <<>>}}

Readable(text) == [readable |-> TRUE, content |-> text]
Unreadable == [readable |-> FALSE, content |-> <<>>]

LintInit ==
    /\ html_file \in {Readable(d) : d \in LintDocuments} \cup {Unreadable}
    /\ errors = <<>>
    /\ warnings = <<>>
    /\ lint_pc = "start"
    /\ lint_result = FALSE
    /\ lint_calls = 1
    /\ LintOnly

\* open(html_path) and f.read(); a failure is caught and answered with False
LintOpen ==
    /\ lint_pc = "start"
    /\ IF html_file.readable
       THEN lint_pc' = "errors" /\ UNCHANGED lint_result
       ELSE lint_pc' = "done" /\ lint_result' = FALSE
    /\ UNCHANGED <<html_file, errors, warnings, lint_calls, notLint>>

\* the ten checks under "run all lint checks"
LintErrorChecks ==
    /\ lint_pc = "errors"
    /\ errors' = errors \o ErrorChecks(html_file.content)
    /\ lint_pc' = "warnings"
    /\ UNCHANGED <<html_file, warnings, lint_result, lint_calls, notLint>>

\* the two checks under "warnings"
LintWarningChecks ==
    /\ lint_pc = "warnings"
    /\ warnings' = warnings \o WarningChecks(html_file.content)
    /\ lint_pc' = "report"
    /\ UNCHANGED <<html_file, errors, lint_result, lint_calls, notLint>>

\* _report_results() and return len(self.errors) == 0
LintReturn ==
    /\ lint_pc = "report"
    /\ lint_result' = LintVerdict([errors |-> errors, warnings |-> warnings])
    /\ lint_pc' = "done"
    /\ UNCHANGED <<html_file, errors, warnings, lint_calls, notLint>>

\* lint_html_file called again on the same BrandLinter
LintAgain ==
    /\ lint_pc = "done"
    /\ lint_calls < MaxLintCalls
    /\ html_file' \in {Readable(CleanDocument), Unreadable}
    /\ lint_pc' = "start"
    /\ lint_calls' = lint_calls + 1
    /\ UNCHANGED <<errors, warnings, lint_result, notLint>>

LintNext == LintOpen \/ LintErrorChecks \/ LintWarningChecks \/ LintReturn \/ LintAgain

SpecLint == LintInit /\ [][LintNext]_vars

---------------------------------------------------------------------------
\* Claims about the linter

IsPrefix(a, b) == Len(a) <= Len(b) /\ SubSeq(b, 1, Len(a)) = a

\* C9: when lint_html_file has run its checks, it reports success exactly
\* when the error list is empty; the step that runs the warning checks only
\* appends to warnings and leaves the error list, hence the verdict, alone.
C9_VerdictIffNoErrors ==
    /\ []((lint_pc = "done" /\ html_file.readable) => (lint_result <=> errors = <<>>))
    /\ [][lint_pc = "warnings" => (errors' = errors /\ IsPrefix(warnings, warnings'))]_vars

\* C9 witness: a document that drew warnings and no error has been linted
\* and reported as a success
C9_Witness ==
    /\ lint_pc = "done"
    /\ html_file.readable
    /\ warnings # <<>>
    /\ errors = <<>>
    /\ lint_result = TRUE

\* the page-break markers of the document being linted
Markers == Cardinality({i \in DOMAIN html_file.content : html_file.content[i] = PageBreak})

PageCountErrors == SelectSeq(errors, LAMBDA e : e.check = "page count")

\* C10: on a fresh linter, a document with k >= 1 page-break markers is
\* counted as k + 1 pages: with 11 markers there is no page-count error, with
\* any other k >= 1 (10 and 12 among them) there is one, reporting k + 1.
C10_PageCountFromMarkers ==
    (/\ lint_calls = 1
     /\ lint_pc \in {"warnings", "report", "done"}
     /\ html_file.readable
     /\ Markers >= 1)
        => IF Markers = 11 THEN PageCountErrors = <<>>
           ELSE /\ Len(PageCountErrors) = 1
                /\ PageCountErrors[1].n = Markers + 1

\* C10 witness: a document with 12 markers has been linted and drew the
\* page-count error for 13 pages
C10_Witness ==
    /\ lint_pc = "done"
    /\ lint_calls = 1
    /\ html_file.readable
    /\ Markers = 12
    /\ Len(PageCountErrors) = 1
    /\ PageCountErrors[1].n = 13

\* the accent errors of the linter
AccentErrors == SelectSeq(errors, LAMBDA e : e.check = "teal accents")

\* the accent markers of page segment j of the text t, the segments being
\* parted by the page-break markers
AccentsOnPage(t, j) ==
    Cardinality({i \in 1..Len(t) :
                    /\ t[i] \in AccentLexemes
                    /\ Cardinality({b \in 1..(i - 1) : t[b] = PageBreak}) = j - 1})

PageSegmentAccents(j) == AccentsOnPage(html_file.content, j)

\* C11: on a fresh linter, there is an accent error exactly when some page
\* segment, the segments delimited by the page-break markers, holds more
\* than one accent marker; twelve pages with one accent each draw none.
C11_AccentErrorIffCrowdedPage ==
    (/\ lint_calls = 1
     /\ lint_pc \in {"warnings", "report", "done"}
     /\ html_file.readable)
        => (AccentErrors # <<>> <=> \E j \in 1..(Markers + 1) : PageSegmentAccents(j) > 1)

\* the rows of the document being linted, and the cells of a row in column
\* order, an empty cell included
DocumentRows == Elements(html_file.content, OpenTags.tr, "</tr>", 1)

ColumnsOf(row) == Elements(row, OpenTags.td, "</td>", 1)

\* the body rows of a responsibility matrix: five columns, no header cell
IsMatrixBodyRow(row) ==
    /\ \A j \in 1..Len(row) : row[j] \notin OpenTags.th
    /\ Len(ColumnsOf(row)) = 5

MatrixErrors(i) ==
    SelectSeq(errors, LAMBDA e : e.check \in {"RASIC accountable", "RASIC responsible"}
                                   /\ e.at = i)

\* C12: on a fresh linter, a body row of the responsibility matrix draws an
\* error exactly when its accountable column does not hold exactly one name
\* or its responsible column holds no name.
C12_MatrixRowErrorIffMisassigned ==
    (/\ lint_calls = 1
     /\ lint_pc \in {"warnings", "report", "done"}
     /\ html_file.readable)
        => \A i \in 1..Len(DocumentRows) :
               IsMatrixBodyRow(DocumentRows[i])
                   => (MatrixErrors(i) # <<>>
                          <=> \/ NonBlankParts(ColumnsOf(DocumentRows[i])[2]) # 1
                              \/ NonBlankParts(ColumnsOf(DocumentRows[i])[1]) = 0)

\* the figures of the document being linted, and the caption elements of
\* a figure, an empty caption included
DocumentFigures == Elements(html_file.content, OpenTags.figure, "</figure>", 1)

CaptionsOf(figure) == Elements(figure, OpenTags.figcaption, "</figcaption>", 1)

FigureErrors(i) ==
    SelectSeq(errors, LAMBDA e : e.check \in {"figure missing figcaption",
                                               "figure caption missing so what"}
                                   /\ e.at = i)

\* C13: on a fresh linter, every figure that has no caption element, or
\* whose caption text does not hold "so what" in any case, draws an error;
\* a missing, an empty and a non-conforming caption are all reported.
C13_EveryBadCaptionReported ==
    (/\ lint_calls = 1
     /\ lint_pc \in {"warnings", "report", "done"}
     /\ html_file.readable)
        => \A i \in 1..Len(DocumentFigures) :
               (\/ CaptionsOf(DocumentFigures[i]) = <<>>
                \/ ~HasAnyWord(CaptionsOf(DocumentFigures[i])[1], {"so what"}))
                   => FigureErrors(i) # <<>>

\* the two cost formula lines that the text t displays
WeeklyLineOf(t) ==
    LET at == FirstIn({i \in 1..Len(t) : WeeklyAt(t, i).ok})
    IN  IF at = 0 THEN NoMatch ELSE WeeklyAt(t, at)

AnnualLineOf(t) ==
    LET at == FirstIn({i \in 1..Len(t) : AnnualAt(t, i).ok})
    IN  IF at = 0 THEN NoMatch ELSE AnnualAt(t, at)

WeeklyLine == WeeklyLineOf(html_file.content)

AnnualLine == AnnualLineOf(html_file.content)

CostErrors ==
    SelectSeq(errors, LAMBDA e : e.check \in {"weekly cost mismatch", "annual cost mismatch",
                                               "weekly cost inconsistency"})

\* the three conditions over the real numbers, for a weekly line w and an
\* annual line a; both sides of each comparison are multiplied by the power
\* of ten that clears the decimals
Disagree(w, a) ==
    LET scale == w.hours_scale * w.rate_scale
        product == w.hours * w.rate * w.team
    IN  \/ Abs(w.display * scale - product) > scale
        \/ Abs(a.display * scale - product * 52) > 52 * scale
        \/ w.display # a.weekly

CostLinesDisagree == Disagree(WeeklyLine, AnnualLine)

\* C14: on a fresh linter, for a document that displays both cost formula
\* lines, there is a cost error exactly when the displayed weekly cost is
\* more than 1 away from hours * rate * team size, or the displayed annual
\* cost is more than 52 away from 52 times that product, or the two lines
\* quote different weekly figures.
C14_CostErrorIffOutOfTolerance ==
    (/\ lint_calls = 1
     /\ lint_pc \in {"warnings", "report", "done"}
     /\ html_file.readable
     /\ WeeklyLine.ok /\ AnnualLine.ok)
        => (CostErrors # <<>> <=> CostLinesDisagree)

---------------------------------------------------------------------------
\* ReportRenderer: from the template to the document (renderer/render_report.py)
\*
\* A template is a sequence of lexemes too.  The characters the renderer's
\* patterns inspect ("#", "*", "_", "|", "-", ":", a newline, a space) are
\* lexemes of their own; "![", "](components/" and ")" are the three fixed
\* parts of an image reference, and no other lexeme of a template holds "]"
\* or ")".  A lexeme that starts or ends with a space stands inside a line.

\* the three fixed parts of the <img> tag that replace_image writes; the
\* image path and the alt text stand between them
ImgOpen == "<img src=\"templates/components/"
ImgAlt == "\" alt=\""
ImgClose == "\" class=\"chart\">"

\* str.strip()
Strip(t) ==
    LET inked == {j \in 1..Len(t) : t[j] \notin Whitespace}
    IN  IF inked = {} THEN <<>> ELSE SubSeq(t, MinOf(inked), MaxOf(inked))

\* the k-th smallest of a set of positions
Nth(P, k) == CHOOSE p \in P : Cardinality({q \in P : q < p}) = k - 1

\* str.split(sep): the parts of t around the separators, each w lexemes
\* wide, that start at the positions P
PartsBetween(t, P, w) ==
    [k \in 1..(Cardinality(P) + 1) |->
        SubSeq(t, IF k = 1 THEN 1 ELSE Nth(P, k - 1) + w,
                  IF k > Cardinality(P) THEN Len(t) ELSE Nth(P, k) - 1)]

\* text.split("\n")
Lines(t) == PartsBetween(t, {j \in 1..Len(t) : t[j] = "\n"}, 1)

\* where text.split("\n\n") cuts: the pairs of newlines, taken from the left
\* without overlap in every run of newlines
ParagraphBreaks(t) ==
    {j \in 1..(Len(t) - 1) :
        /\ t[j] = "\n"
        /\ t[j + 1] = "\n"
        /\ (j - MaxOf({0} \cup {q \in 1..j : t[q] # "\n"})) % 2 = 1}

\* sep.join(parts)
RECURSIVE Join(_, _)
Join(parts, sep) ==
    IF Len(parts) = 0 THEN <<>>
    ELSE IF Len(parts) = 1 THEN parts[1]
    ELSE Join(SubSeq(parts, 1, Len(parts) \div 2), sep)
             \o sep
             \o Join(SubSeq(parts, Len(parts) \div 2 + 1, Len(parts)), sep)

\* re.sub over the text t from position i: ends[j] is the position after the
\* match that starts at j (0 when the pattern does not match there) and
\* reps[j] is what replaces that match
RECURSIVE ReSub(_, _, _, _)
ReSub(t, ends, reps, i) ==
    LET a == FirstIn({j \in i..Len(t) : ends[j] > 0})
    IN  IF a = 0 THEN SubSeq(t, i, Len(t))
        ELSE SubSeq(t, i, a - 1) \o reps[a] \o ReSub(t, ends, reps, ends[a])

NoNewline(t, from, to) == \A q \in from..to : t[q] # "\n"

\* !\[([^\]]*)\]\(components/([^)]+)\) tried at position a: the index of
\* "](components/" and of the closing ")", both 0 when there is no match
ImageMatch(t, a) ==
    LET m == FirstIn({j \in (a + 1)..Len(t) : t[j] \in {"]", "](components/"}})
        e == IF m = 0 THEN 0 ELSE FirstIn({j \in (m + 1)..Len(t) : t[j] = ")"})
    IN  IF t[a] = "![" /\ m > 0 /\ t[m] = "](components/" /\ e > m + 1
        THEN [mid |-> m, end |-> e]
        ELSE [mid |-> 0, end |-> 0]

\* the caption replace_image finds in the three lines that start where the
\* match ends: the first line that starts and ends with "_", without the two
IsCaptionLine(line) == Len(line) >= 1 /\ line[1] = "_" /\ line[Len(line)] = "_"

CaptionAfter(t, e) ==
    LET lines == Lines(SubSeq(t, e + 1, Len(t)))
        found == {k \in 1..Len(lines) : k <= 3 /\ IsCaptionLine(Strip(lines[k]))}
    IN  IF found = {} THEN <<>>
        ELSE SubSeq(Strip(lines[MinOf(found)]), 2, Len(Strip(lines[MinOf(found)])) - 1)

\* image_captions.get(image_path, alt_text)
PredefinedCaption(image_path, alt_text) ==
    IF Len(image_path) = 1 /\ image_path[1] \in DOMAIN image_captions
    THEN <<image_captions[image_path[1]]>>
    ELSE alt_text

replace_image(t, a) ==
    LET m == ImageMatch(t, a)
        alt_text == SubSeq(t, a + 1, m.mid - 1)
        image_path == SubSeq(t, m.mid + 1, m.end - 1)
        caption == CaptionAfter(t, m.end)
    IN  <<"<figure>", ImgOpen>> \o image_path \o <<ImgAlt>> \o alt_text
            \o <<ImgClose, "<figcaption>">>
            \o (IF caption # <<>> THEN caption ELSE PredefinedCaption(image_path, alt_text))
            \o <<"</figcaption>", "</figure>">>

inject_image_paths(t) ==
    ReSub(t, [j \in 1..Len(t) |-> IF ImageMatch(t, j).end > 0 THEN ImageMatch(t, j).end + 1
                                  ELSE 0],
             [j \in 1..Len(t) |-> IF ImageMatch(t, j).end > 0 THEN replace_image(t, j)
                                  ELSE <<>>],
          1)

\* "|" in line
HasPipe(line) == \E j \in 1..Len(line) : line[j] = "|"

\* the test of the second line that takes every line with a bar
AnyBarLineSeparates(line) == HasPipe(line)

\* re.match(r"^\s*\|[\s\-:]+\|", line)
IsSeparatorLine(line) ==
    LET p == SkipAll(line, 1, Whitespace)
        q == SkipAll(line, p + 1, Whitespace \cup {"-", ":"})
    IN  /\ p <= Len(line) /\ line[p] = "|"
        /\ q > p + 1
        /\ q <= Len(line) /\ line[q] = "|"

\* [cell.strip() for cell in line.split("|")[1:-1]]
CellsOf(line) ==
    LET parts == PartsBetween(line, {j \in 1..Len(line) : line[j] = "|"}, 1)
    IN  [k \in 1..(Len(parts) - 2) |-> Strip(parts[k + 1])]

\* the lines html.append adds for one row of cells
RowHtml(cells, open, close) ==
    << <<"<tr>">> >>
        \o [k \in 1..Len(cells) |-> <<open>> \o cells[k] \o <<close>>]
        \o << <<"</tr>">> >>

\* the conversion with the separator line kept as a body row
TableHtmlKeepingSeparator(table_lines) ==
    Join(<< <<"<table>">>, <<"<thead>">> >>
             \o RowHtml(CellsOf(table_lines[1]), "<th>", "</th>")
             \o << <<"</thead>">>, <<"<tbody>">> >>
             \o Concat([k \in 1..(Len(table_lines) - 1) |->
                           RowHtml(CellsOf(table_lines[k + 1]), "<td>", "</td>")])
             \o << <<"</tbody>">>, <<"</table>">> >>,
         <<"\n">>)

_convert_table_lines_to_html(table_lines) ==
    IF Len(table_lines) < 2 THEN Join(table_lines, <<"\n">>)
    ELSE Join(<< <<"<table>">>, <<"<thead>">> >>
                  \o RowHtml(CellsOf(table_lines[1]), "<th>", "</th>")
                  \o << <<"</thead>">> >>
                  \o (IF Len(table_lines) > 2
                      THEN << <<"<tbody>">> >>
                               \o Concat([k \in 1..(Len(table_lines) - 2) |->
                                             RowHtml(CellsOf(table_lines[k + 2]), "<td>", "</td>")])
                               \o << <<"</tbody>">> >>
                      ELSE <<>>)
                  \o << <<"</table>">> >>,
              <<"\n">>)

\* the index after the run of lines with "|" that starts at line i
PipeRunEnd(lines, i) ==
    FirstIn({k \in i..(Len(lines) + 1) : k > Len(lines) \/ ~HasPipe(lines[k])})

\* whether the loop of _convert_markdown_tables, standing at line i, finds a
\* table there: a run of at least two lines whose second is a separator
TableStartsAt(lines, i) ==
    /\ HasPipe(Strip(lines[i]))
    /\ PipeRunEnd(lines, i) - i >= 2
    /\ IsSeparatorLine(lines[i + 1])

\* the loop consumes a table where it finds one and goes on after it, and
\* passes every other line on as it is
_convert_markdown_tables(t) ==
    LET lines == Lines(t)
    IN  Join(ReSub(lines,
                   [i \in 1..Len(lines) |-> IF TableStartsAt(lines, i)
                                            THEN PipeRunEnd(lines, i) ELSE 0],
                   [i \in 1..Len(lines) |->
                       IF TableStartsAt(lines, i)
                       THEN <<_convert_table_lines_to_html(
                                  SubSeq(lines, i, PipeRunEnd(lines, i) - 1))>>
                       ELSE <<>>],
                   1),
             <<"\n">>)

\* re.sub(r"^#{n} (.+)$", r"<hn>\1</hn>", line) for one line
HeaderLine(line, n) ==
    IF /\ Len(line) >= n + 2
       /\ \A k \in 1..n : line[k] = "#"
       /\ line[n + 1] = " "
    THEN <<CHOOSE l \in {"<h1>", "<h2>", "<h3>"} : l \in OpenTags[<<"h1", "h2", "h3">>[n]]>>
             \o SubSeq(line, n + 2, Len(line))
             \o << <<"</h1>", "</h2>", "</h3>">>[n] >>
    ELSE line

\* re.sub(r"^#{n} (.+)$", r"<hn>\1</hn>", content, flags=re.MULTILINE)
Headers(t, n) ==
    Join([k \in 1..Len(Lines(t)) |-> HeaderLine(Lines(t)[k], n)], <<"\n">>)

\* \*\*(.+?)\*\* tried at position a: the index of the closing pair, or 0
BoldClose(t, a) ==
    IF a + 1 <= Len(t) /\ t[a] = "*" /\ t[a + 1] = "*"
    THEN FirstIn({e \in (a + 3)..(Len(t) - 1) :
                     t[e] = "*" /\ t[e + 1] = "*" /\ NoNewline(t, a + 2, e - 1)})
    ELSE 0

\* re.sub(r"\*\*(.+?)\*\*", r"<strong>\1</strong>", content)
Bold(t) ==
    ReSub(t, [j \in 1..Len(t) |-> IF BoldClose(t, j) > 0 THEN BoldClose(t, j) + 2 ELSE 0],
             [j \in 1..Len(t) |->
                 <<"<strong>">> \o SubSeq(t, j + 2, BoldClose(t, j) - 1) \o <<"</strong>">>],
          1)

\* \*(.+?)\* tried at position a: the index of the closing "*", or 0
ItalicClose(t, a) ==
    IF t[a] = "*"
    THEN FirstIn({e \in (a + 2)..Len(t) : t[e] = "*" /\ NoNewline(t, a + 1, e - 1)})
    ELSE 0

\* re.sub(r"\*(.+?)\*", r"<em>\1</em>", content)
Italic(t) ==
    ReSub(t, [j \in 1..Len(t) |-> IF ItalicClose(t, j) > 0 THEN ItalicClose(t, j) + 1 ELSE 0],
             [j \in 1..Len(t) |->
                 <<"<em>">> \o SubSeq(t, j + 1, ItalicClose(t, j) - 1) \o <<"</em>">>],
          1)

\* the tags whose presence keeps _wrap_paragraphs from wrapping a paragraph
TableTags == {"<table>", "<thead>", "<tbody>", "<tr>", "<th>", "<td>", "</table>"}

WrapParagraph(para) ==
    IF \E j \in 1..Len(para) : para[j] \in TableTags THEN para
    ELSE <<"<p>">> \o para \o <<"</p>">>

_wrap_paragraphs(t) ==
    LET paragraphs == PartsBetween(t, ParagraphBreaks(t), 2)
        kept == SelectSeq([k \in 1..Len(paragraphs) |-> Strip(paragraphs[k])],
                          LAMBDA para : para # <<>>)
    IN  Join([k \in 1..Len(kept) |-> WrapParagraph(kept[k])], <<"\n", "\n">>)

_basic_markdown_to_html(t) ==
    _wrap_paragraphs(Italic(Bold(Headers(Headers(Headers(
        _convert_markdown_tables(t), 1), 2), 3))))

\* The markdown package is no part of the repository: this is the build in
\* which its import fails (MARKDOWN_AVAILABLE is False) and the renderer's
\* own conversion runs.
markdown_to_html(t) == _basic_markdown_to_html(t)

\* <p><h([1-6])[^>]*>(.*?)</h[1-6]></p> tried at position a: the index of the
\* closing heading tag, or 0
HeadingLevels == <<"h1", "h2", "h3">>

WrappedHeadingClose(t, a) ==
    IF /\ a + 1 <= Len(t)
       /\ t[a] = "<p>"
       /\ \E n \in 1..3 : t[a + 1] \in OpenTags[HeadingLevels[n]]
    THEN FirstIn({e \in (a + 2)..(Len(t) - 1) :
                     /\ t[e] \in {"</h1>", "</h2>", "</h3>"}
                     /\ t[e + 1] = "</p>"
                     /\ NoNewline(t, a + 2, e - 1)})
    ELSE 0

\* <h\1>\2</h\1>
UnwrappedHeading(t, a) ==
    LET n == CHOOSE n \in 1..3 : t[a + 1] \in OpenTags[HeadingLevels[n]]
    IN  << <<"<h1>", "<h2>", "<h3>">>[n] >>
            \o SubSeq(t, a + 2, WrappedHeadingClose(t, a) - 1)
            \o << <<"</h1>", "</h2>", "</h3>">>[n] >>

StripHeadingWrappers(t) ==
    ReSub(t, [j \in 1..Len(t) |-> IF WrappedHeadingClose(t, j) > 0
                                  THEN WrappedHeadingClose(t, j) + 2 ELSE 0],
             [j \in 1..Len(t) |-> IF WrappedHeadingClose(t, j) > 0
                                  THEN UnwrappedHeading(t, j) ELSE <<>>],
          1)

\* re.sub(r'<p><div class="page-break"></div></p>', r'<div class="page-break"></div>', ...)
StripPageBreakWrappers(t) ==
    ReSub(t, [j \in 1..Len(t) |-> IF HasAt(t, j, <<"<p>", PageBreak, "</p>">>) THEN j + 3 ELSE 0],
             [j \in 1..Len(t) |-> <<PageBreak>>],
          1)

\* <figcaption>.*?</figcaption></figure>_([^_]+)_ tried at position a: the
\* index of </figcaption> and of the closing "_", both 0 when there is no match
DuplicateCaption(t, a) ==
    LET closing(c) == FirstIn({d \in (c + 3)..Len(t) : t[d] = "_"})
        c == IF t[a] # "<figcaption>" THEN 0
             ELSE FirstIn({c \in (a + 1)..(Len(t) - 2) :
                              /\ HasAt(t, c, <<"</figcaption>", "</figure>", "_">>)
                              /\ NoNewline(t, a + 1, c - 1)
                              /\ closing(c) > c + 3})
    IN  IF c = 0 THEN [cap |-> 0, end |-> 0] ELSE [cap |-> c, end |-> closing(c)]

RemoveDuplicateCaptions(t) ==
    ReSub(t, [j \in 1..Len(t) |-> IF DuplicateCaption(t, j).end > 0
                                  THEN DuplicateCaption(t, j).end + 1 ELSE 0],
             [j \in 1..Len(t) |->
                 <<"<figcaption>">>
                     \o SubSeq(t, DuplicateCaption(t, j).cap + 3, DuplicateCaption(t, j).end - 1)
                     \o <<"</figcaption>", "</figure>">>],
          1)

\* <p><table([^>]*)>(.*?)</table></p> with re.DOTALL, tried at position a:
\* the index of </table>, or 0
WrappedTableClose(t, a) ==
    IF a + 1 <= Len(t) /\ t[a] = "<p>" /\ t[a + 1] \in OpenTags.table
    THEN FirstIn({e \in (a + 2)..(Len(t) - 1) : t[e] = "</table>" /\ t[e + 1] = "</p>"})
    ELSE 0

StripTableWrappers(t) ==
    ReSub(t, [j \in 1..Len(t) |-> IF WrappedTableClose(t, j) > 0
                                  THEN WrappedTableClose(t, j) + 2 ELSE 0],
             [j \in 1..Len(t) |-> SubSeq(t, j + 1, WrappedTableClose(t, j))],
          1)

\* re.sub(r"<p>\s*(<name\b[^>]*>)", r"\1", ...): a <p>, whitespace and an
\* opening tag of opens become the opening tag
StripOpeningWrappers(t, opens) ==
    ReSub(t, [j \in 1..Len(t) |->
                 IF /\ t[j] = "<p>"
                    /\ SkipAll(t, j + 1, Whitespace) <= Len(t)
                    /\ t[SkipAll(t, j + 1, Whitespace)] \in opens
                 THEN SkipAll(t, j + 1, Whitespace) + 1 ELSE 0],
             [j \in 1..Len(t) |->
                 IF SkipAll(t, j + 1, Whitespace) <= Len(t)
                 THEN <<t[SkipAll(t, j + 1, Whitespace)]>> ELSE <<>>],
          1)

\* re.sub(r"(</name>)\s*</p>", r"\1", ...)
StripClosingWrappers(t, close) ==
    ReSub(t, [j \in 1..Len(t) |->
                 IF /\ t[j] = close
                    /\ SkipAll(t, j + 1, Whitespace) <= Len(t)
                    /\ t[SkipAll(t, j + 1, Whitespace)] = "</p>"
                 THEN SkipAll(t, j + 1, Whitespace) + 1 ELSE 0],
             [j \in 1..Len(t) |-> <<close>>],
          1)

\* the lexemes that hold ":", and those among them whose only ":" is their
\* last character
ColonLexemes ==
    {":", "owner:", "weekly cost: ", "annual cost: "} \cup CssBreakLexemes
        \cup {image_captions[nm] : nm \in DOMAIN image_captions}
LabelEnds == {":", "owner:"}

\* <p><strong>([^:]+:)</strong>\s*<ul> tried at position a: the index of
\* <ul>, or 0
LabelledList(t, a) ==
    LET k == FirstIn({k \in (a + 2)..Len(t) : t[k] \in ColonLexemes})
        u == SkipAll(t, k + 2, Whitespace)
    IN  IF /\ HasAt(t, a, <<"<p>", "<strong>">>)
           /\ k > 0
           /\ t[k] \in LabelEnds
           /\ (k > a + 2 \/ t[k] # ":")
           /\ HasAt(t, k + 1, <<"</strong>">>)
           /\ u <= Len(t) /\ t[u] = "<ul>"
        THEN u
        ELSE 0

\* r"<p><strong>\1</strong></p>\n<ul>"
SplitLabelsFromLists(t) ==
    ReSub(t, [j \in 1..Len(t) |-> IF LabelledList(t, j) > 0 THEN LabelledList(t, j) + 1 ELSE 0],
             [j \in 1..Len(t) |->
                 LET k == FirstIn({k \in (j + 2)..Len(t) : t[k] \in ColonLexemes})
                 IN  SubSeq(t, j, k + 1) \o <<"</p>", "\n", "<ul>">>],
          1)

cleanup_html(t) ==
    SplitLabelsFromLists(
        StripClosingWrappers(StripOpeningWrappers(
            StripClosingWrappers(StripOpeningWrappers(
                StripTableWrappers(RemoveDuplicateCaptions(
                    StripPageBreakWrappers(StripHeadingWrappers(t)))),
                OpenTags.ul), "</ul>"),
            OpenTags.figure), "</figure>"))

create_html_document(html_content, css_content) ==
    <<"<!DOCTYPE html>", "\n", "<html lang=\"en\">", "\n", "<head>", "\n",
      "    ", "<meta charset=\"UTF-8\">", "\n",
      "    ", "<meta name=\"viewport\" content=\"width=device-width, initial-scale=1.0\">", "\n",
      "    ", "<title>", "calm.profile diagnostic report", "</title>", "\n",
      "    ", "<style>", "\n",
      "        ">> \o css_content \o <<"\n",
      "    ", "</style>", "\n", "</head>", "\n", "<body>", "\n",
      "    ", "<!-- autogenerated by renderer; do not edit -->", "\n",
      "    ">> \o cleanup_html(html_content) \o <<"\n", "</body>", "\n", "</html>">>

\* validate_page_count, given whether the engine renders the document or
\* raises: an exception is answered with True
validate_page_count(available, engine_renders, doc) ==
    IF ~available THEN TRUE
    ELSE IF ~engine_renders THEN TRUE
    ELSE CountLex(doc, {"page-break-before: always"}) + 1 <= 12

\* main() of lint_report.py for a file that exists and reads as content: the
\* exit status
main(file_content, fail_on_warnings) ==
    LET self == [errors |-> ErrorChecks(file_content), warnings |-> WarningChecks(file_content)]
    IN  IF fail_on_warnings /\ self.warnings # <<>> THEN 1
        ELSE IF LintVerdict(self) THEN 0
        ELSE 1

\* how the temporary file of validate_brand_compliance fares, and whether
\* subprocess.run starts the linter
TempFileOutcomes == {"ok", "write_fails", "unlink_fails"}

\* validate_brand_compliance: the exit status of the linter is logged and
\* dropped; only a failure around the temporary file answers False
validate_brand_compliance(temp_file, returncode) == temp_file = "ok"

PropagateNothing(result_raised, next) == next

\* a call that raised leaves the handler at once; one that returned goes on
\* to the step next
Propagate(result_raised, next) == IF result_raised THEN "done" ELSE next

RenderRaised(kind, at) == [raised |-> TRUE, kind |-> kind, at |-> at, path |-> <<>>]
RenderReturned(path) == [raised |-> FALSE, kind |-> "", at |-> "", path |-> path]

\* out/<output_path>, or out/calm_profile_report_<timestamp><suffix>
OutputPath(given, now, suffix) ==
    IF given # <<>> THEN [dir |-> "out", name |-> given, stamp |-> 0, suffix |-> ""]
    ELSE [dir |-> "out", name |-> <<"calm_profile_report_">>, stamp |-> now, suffix |-> suffix]

EngineCall(doc, target) == [who |-> "engine", doc |-> doc, target |-> target, returncode |-> 0]
LinterCall(doc, returncode) ==
    [who |-> "linter", doc |-> doc, target |-> <<>>, returncode |-> returncode]

\* Inputs of the render specification
ElevenBreaks == Join([k \in 1..11 |-> <<PageBreak>>], <<"\n">>)

TwelveBreakRules == Join([k \in 1..12 |-> <<"page-break-before: always">>], <<" ">>)

\* twelve pages parted by eleven page-break markers, an accent on each, the
\* first one signed with the company name
TwelvePagesTemplate ==
    Join(<<AccentedPage \o <<" ", "by", " ">> \o Placeholder(<<"company_name">>)>>
             \o [k \in 1..11 |-> AccentedPage],
         <<"\n", "\n", PageBreak, "\n", "\n">>)

RenderBlocks ==
    { <<"#", "#", " ", "overview">>,
      ElevenBreaks,
      GoodCostLines,
      <<"by", " ">> \o Placeholder(<<"company_name">>),
      <<"![", "radar", "](components/", "radar.svg", ")", "\n", "_", "plain", "_">>,
      <<"|", "role", "|", "\n", "|", "-", "|", "\n", "|", "pm", "|">>,
      TwelveBreakRules,
      TwelvePagesTemplate }

RECURSIVE RenderTemplatesUpTo(_)
RenderTemplatesUpTo(n) ==
    IF n = 0 THEN {<<>>}
    ELSE LET T == RenderTemplatesUpTo(n - 1)
         IN  T \cup {IF t = <<>> THEN b ELSE t \o <<"\n", "\n">> \o b : t \in T, b \in RenderBlocks}

Stylesheets ==
    { <<"h2", " ", "{", " ", "page-break-before: always", ";", " ", "}">>,
      <<"body", " ", "{", " ", "margin", ":", " ", "0", " ", "}">> }

RenderData == {<<>>, SampleData, TokenData}

OutputPaths == {<<>>, <<"report">>}

ClockSeconds == {1}

RenderInit ==
    /\ template \in RenderTemplatesUpTo(MaxRenderBlocks)
    /\ data \in RenderData
    /\ sub_pc = "idle"
    /\ sub_out = <<>>
    /\ css \in Stylesheets
    /\ weasyprint_available \in BOOLEAN
    /\ render_call = ""
    /\ output_path = <<>>
    /\ render_pc = "start"
    /\ render_content = <<>>
    /\ html_doc = <<>>
    /\ calls = <<>>
    /\ out = {}
    /\ render_out = RenderReturned(<<>>)
    /\ SchemaIdle /\ NormIdle /\ LintIdle /\ GenIdle /\ HookIdle /\ CliIdle /\ MdIdle /\ CalcIdle

\* render_to_pdf is called: without weasyprint it raises ImportError, else it
\* loads the template and the stylesheet
RenderToPdf ==
    /\ render_pc = "start"
    /\ render_call' = "render_to_pdf"
    /\ output_path' \in OutputPaths
    /\ IF weasyprint_available
       THEN render_pc' = "substitute" /\ UNCHANGED render_out
       ELSE render_pc' = "done" /\ render_out' = RenderRaised("ImportError", "render_to_pdf")
    /\ UNCHANGED <<css, weasyprint_available, render_content, html_doc, calls, out, notRender>>

\* render_to_html is called and loads the template and the stylesheet
RenderToHtml ==
    /\ render_pc = "start"
    /\ render_call' = "render_to_html"
    /\ output_path' \in OutputPaths
    /\ render_pc' = "substitute"
    /\ UNCHANGED <<css, weasyprint_available, render_content, html_doc, calls, out, render_out,
                   notRender>>

\* content = self.substitute_placeholders(template, data)
RenderSubstitute ==
    /\ render_pc = "substitute"
    /\ LET result == substitute_placeholders(template, data)
       IN  /\ render_pc' = Propagate(result.raised, "assemble")
           /\ IF result.raised
              THEN /\ render_out' = RenderRaised(result.kind, "substitute_placeholders")
                   /\ UNCHANGED render_content
              ELSE /\ render_content' = result.text
                   /\ UNCHANGED render_out
    /\ UNCHANGED <<css, weasyprint_available, render_call, output_path, html_doc, calls, out,
                   notRender>>

\* inject_image_paths, markdown_to_html and create_html_document
RenderAssemble ==
    /\ render_pc = "assemble"
    /\ html_doc' = create_html_document(markdown_to_html(inject_image_paths(render_content)), css)
    /\ render_pc' = IF render_call = "render_to_pdf" THEN "validate_page_count" ELSE "write"
    /\ UNCHANGED <<css, weasyprint_available, render_call, output_path, render_content, calls, out,
                   render_out, notRender>>

\* if not self.validate_page_count(html_doc): raise ValueError; the
\* validation has the engine render the document to memory
ValidatePageCount ==
    /\ render_pc = "validate_page_count"
    /\ \E engine_renders \in BOOLEAN :
           LET passed == validate_page_count(weasyprint_available, engine_renders, html_doc)
           IN  /\ render_pc' = Propagate(~passed, "validate_brand_compliance")
               /\ render_out' = IF passed THEN render_out
                                ELSE RenderRaised("ValueError", "validate_page_count")
    /\ calls' = IF weasyprint_available THEN Append(calls, EngineCall(html_doc, <<>>))
                ELSE calls
    /\ UNCHANGED <<css, weasyprint_available, render_call, output_path, render_content, html_doc, out,
                   notRender>>

\* if not self.validate_brand_compliance(html_doc): raise ValueError; the
\* validation runs renderer/lint_report.py on a temporary copy
ValidateBrandCompliance ==
    /\ render_pc = "validate_brand_compliance"
    /\ \E returncode \in {main(html_doc, FALSE)} :
       \E temp_file \in TempFileOutcomes, linter_starts \in BOOLEAN :
           LET passed == validate_brand_compliance(temp_file, returncode)
           IN  /\ calls' = IF temp_file # "write_fails" /\ linter_starts
                           THEN Append(calls, LinterCall(html_doc, returncode))
                           ELSE calls
               /\ render_pc' = Propagate(~passed, "write")
               /\ render_out' = IF passed THEN render_out
                                ELSE RenderRaised("ValueError", "validate_brand_compliance")
    /\ UNCHANGED <<css, weasyprint_available, render_call, output_path, render_content, html_doc, out,
                   notRender>>

\* out/ is made and weasyprint writes the PDF to the output path
RenderWritePdf ==
    /\ render_pc = "write"
    /\ render_call = "render_to_pdf"
    /\ \E now \in ClockSeconds :
           LET path == OutputPath(output_path, now, ".pdf")
           IN  /\ calls' = Append(calls, EngineCall(html_doc, path))
               /\ out' = {f \in out : f.path # path} \cup {[path |-> path, text |-> html_doc]}
               /\ render_out' = RenderReturned(path)
    /\ render_pc' = "done"
    /\ UNCHANGED <<css, weasyprint_available, render_call, output_path, render_content, html_doc,
                   notRender>>

\* out/ is made and the document is written to the output path
RenderWriteHtml ==
    /\ render_pc = "write"
    /\ render_call = "render_to_html"
    /\ \E now \in ClockSeconds :
           LET path == OutputPath(output_path, now, ".html")
           IN  /\ out' = {f \in out : f.path # path} \cup {[path |-> path, text |-> html_doc]}
               /\ render_out' = RenderReturned(path)
    /\ render_pc' = "done"
    /\ UNCHANGED <<css, weasyprint_available, render_call, output_path, render_content, html_doc,
                   calls, notRender>>

RenderNext ==
    \/ RenderToPdf
    \/ RenderToHtml
    \/ RenderSubstitute
    \/ RenderAssemble
    \/ ValidatePageCount
    \/ ValidateBrandCompliance
    \/ RenderWritePdf
    \/ RenderWriteHtml

SpecRender == RenderInit /\ [][RenderNext]_vars

---------------------------------------------------------------------------
\* Claims about the renderer

\* the linter ran on the assembled document and exited with an error status
LinterReportedErrors ==
    \E i \in 1..Len(calls) :
        calls[i].who = "linter" /\ calls[i].doc = html_doc /\ calls[i].returncode # 0

\* the engine was asked to write the assembled document to a file
EngineWrote ==
    \E i \in 1..Len(calls) :
        calls[i].who = "engine" /\ calls[i].doc = html_doc /\ calls[i].target # <<>>

\* C3: in render_to_pdf, once the linter has reported at least one error for
\* the assembled document, the PDF engine is not asked to write that document
\* and no file is written under out/.
C3_LinterErrorsBlockPdf ==
    (render_call = "render_to_pdf" /\ LinterReportedErrors) => (~EngineWrote /\ out = {})

\* substitute_placeholders raised in this render call
SubstitutionRaised == render_out.raised /\ render_out.at = "substitute_placeholders"

\* C4: when substitute_placeholders raises in render_to_pdf or in
\* render_to_html, the call is over at once: no document has been assembled,
\* neither the linter nor the PDF engine has been invoked, and out/ holds no
\* file.
C4_SubstitutionFailureAborts ==
    (render_pc # "idle" /\ SubstitutionRaised)
        => /\ render_pc = "done"
           /\ render_content = <<>>
           /\ html_doc = <<>>
           /\ calls = <<>>
           /\ out = {}

\* C4 witness: render_to_pdf, with weasyprint at hand, has ended in the
\* ValueError of substitute_placeholders over a template that holds a
\* placeholder
C4_Witness ==
    /\ render_call = "render_to_pdf"
    /\ weasyprint_available
    /\ render_pc = "done"
    /\ SubstitutionRaised
    /\ render_out.kind = "ValueError"
    /\ FindPlaceholders(template, 1) # <<>>

\* the scenario of a clean render: every placeholder of the template names
\* a field of the record, the template holds exactly 11 page-break markers
\* and one accent marker on each of its 12 pages, and it displays cost
\* formula lines that agree
CleanScenario ==
    /\ FindPlaceholders(template, 1) # <<>>
    /\ MissingKeys(template, data) = {}
    /\ CountLex(template, PageBreakLexemes) = 11
    /\ \A j \in 1..12 : AccentsOnPage(template, j) = 1
    /\ WeeklyLineOf(template).ok /\ AnnualLineOf(template).ok
    /\ ~Disagree(WeeklyLineOf(template), AnnualLineOf(template))

\* the documents that render_to_html has written under out/
WrittenDocuments == {f.text : f \in out}

\* C15: a document that render_to_html has written in the clean scenario is
\* linted with an empty error list.
C15_CleanRenderLintsClean ==
    (/\ render_call = "render_to_html"
     /\ render_pc = "done"
     /\ ~render_out.raised
     /\ CleanScenario)
        => \A doc \in WrittenDocuments : ErrorChecks(doc) = <<>>

---------------------------------------------------------------------------
\* Concurrent renders: generate_pdf_report (app.py) and render_to_pdf
\*
\* Each invocation is a process of its own; what the invocations share is
\* the clock, the directory out/ and the S3 bucket.

Renders == 1..MaxRenders

Entries == {"generate_pdf_report", "render_to_pdf"}

Customers == {"a@b.c", "d@e.f"}

\* the record of invocation p: each invocation renders another company
RecordOf(p) == (<<"company_name">> :> StrV(<<"company", DigitLex[p + 1]>>))

\* html_doc of render_to_pdf for a template, a record and a stylesheet
RenderedDocument(tpl, d, stylesheet) ==
    CHOOSE doc \in {create_html_document(body, stylesheet) :
                        body \in {markdown_to_html(marked) :
                            marked \in {inject_image_paths(content) :
                                content \in {substitute_placeholders(tpl, d).text}}}} : TRUE

GenRaised(kind) == [raised |-> TRUE, kind |-> kind, where |-> "", ref |-> <<>>]
GenReturned(where, ref) == [raised |-> FALSE, kind |-> "", where |-> where, ref |-> ref]

\* pdf_filename = f"calm_profile_report_{customer_email}_{timestamp}.pdf"
pdf_filename(customer_email, timestamp) ==
    <<"calm_profile_report_", customer_email, "_">> \o DigitsOf(timestamp) \o <<".pdf">>

FileAt(path) == {f \in out : f.path = path}

ConcurrentInit ==
    /\ template = <<"by", " ">> \o Placeholder(<<"company_name">>)
    /\ data = <<>> /\ sub_pc = "idle" /\ sub_out = <<>>
    /\ css \in Stylesheets
    /\ weasyprint_available \in BOOLEAN
    /\ render_call = "" /\ output_path = <<>> /\ render_pc = "idle" /\ render_content = <<>>
    /\ html_doc = <<>> /\ calls = <<>> /\ render_out = <<>>
    /\ out = {}
    /\ clock = 1
    /\ gen \in {[p \in Renders |->
                    [entry |-> es[p], customer |-> cs[p], data |-> RecordOf(p), pc |-> "start",
                     filename |-> <<>>, path |-> <<>>, result |-> GenReturned("", <<>>)]] :
                es \in [Renders -> Entries], cs \in [Renders -> Customers]}
    /\ s3_enabled \in BOOLEAN
    /\ s3_bucket = {}
    /\ SchemaIdle /\ NormIdle /\ LintIdle /\ HookIdle /\ CliIdle /\ MdIdle /\ CalcIdle

\* a second passes
Tick ==
    /\ clock < MaxClock
    /\ clock' = clock + 1
    /\ UNCHANGED <<gen, s3_enabled, s3_bucket, out, notGen>>

\* generate_pdf_report up to the renderer command: the data file is written
\* to a temporary file of its own and the output file is named after the
\* customer and the second
GenerateStart(p) ==
    /\ gen[p].pc = "start"
    /\ gen[p].entry = "generate_pdf_report"
    /\ gen' = [gen EXCEPT ![p].filename = pdf_filename(gen[p].customer, clock),
                          ![p].pc = "render"]
    /\ UNCHANGED <<clock, s3_enabled, s3_bucket, out, notGen>>

\* render_to_pdf called with no output_path: ImportError without weasyprint
RenderStart(p) ==
    /\ gen[p].pc = "start"
    /\ gen[p].entry = "render_to_pdf"
    /\ gen' = IF weasyprint_available
              THEN [gen EXCEPT ![p].pc = "render"]
              ELSE [gen EXCEPT ![p].pc = "done", ![p].result = GenRaised("ImportError")]
    /\ UNCHANGED <<clock, s3_enabled, s3_bucket, out, notGen>>

\* render_to_pdf from the template to write_pdf, in generate_pdf_report run
\* as the renderer command with --output: the document passes the two
\* validations and is written to out/<output_path>, or to
\* out/calm_profile_report_<second>.pdf
WriteDocument(p) ==
    /\ gen[p].pc = "render"
    /\ \E engine_renders \in BOOLEAN, temp_file \in TempFileOutcomes :
           LET path == OutputPath(gen[p].filename, clock, ".pdf")
               doc == RenderedDocument(template, gen[p].data, css)
               passed == /\ validate_page_count(weasyprint_available, engine_renders, doc)
                         /\ validate_brand_compliance(temp_file, main(doc, FALSE))
               failure == IF gen[p].entry = "render_to_pdf" THEN "ValueError"
                          ELSE "renderer failed"
           IN  IF ~weasyprint_available \/ ~passed
               THEN /\ gen' = [gen EXCEPT ![p].pc = "done", ![p].result = GenRaised(failure)]
                    /\ UNCHANGED out
               ELSE /\ out' = (out \ FileAt(path)) \cup {[path |-> path, text |-> doc]}
                    /\ gen' = IF gen[p].entry = "render_to_pdf"
                              THEN [gen EXCEPT ![p].path = path, ![p].pc = "done",
                                               ![p].result = GenReturned("file", path)]
                              ELSE [gen EXCEPT ![p].path = path, ![p].pc = "check"]
    /\ UNCHANGED <<clock, s3_enabled, s3_bucket, notGen>>

\* if not pdf_path.exists(): raise; then the choice between S3 and the
\* local path
CheckPdf(p) ==
    /\ gen[p].pc = "check"
    /\ gen' = IF FileAt(gen[p].path) = {}
              THEN [gen EXCEPT ![p].pc = "done", ![p].result = GenRaised("pdf file not generated")]
              ELSE IF s3_enabled THEN [gen EXCEPT ![p].pc = "upload"]
              ELSE [gen EXCEPT ![p].pc = "done", ![p].result = GenReturned("local", gen[p].path)]
    /\ UNCHANGED <<clock, s3_enabled, s3_bucket, out, notGen>>

\* upload_to_s3(str(pdf_path), pdf_filename): the file as it is now goes to
\* reports/<pdf_filename>; a failed upload falls back to the local path
UploadToS3(p) ==
    /\ gen[p].pc = "upload"
    /\ IF FileAt(gen[p].path) = {}
       THEN /\ gen' = [gen EXCEPT ![p].pc = "done",
                                  ![p].result = GenReturned("local", gen[p].path)]
            /\ UNCHANGED s3_bucket
       ELSE /\ s3_bucket' = {o \in s3_bucket : o.key # gen[p].filename}
                               \cup {[key |-> gen[p].filename, text |-> f.text] :
                                        f \in FileAt(gen[p].path)}
            /\ gen' = [gen EXCEPT ![p].pc = "cleanup"]
    /\ UNCHANGED <<clock, s3_enabled, out, notGen>>

\* os.unlink(temp_json_path); pdf_path.unlink(); return s3_url.  When the
\* file is gone the unlink raises, the fallback unlinks the data file a
\* second time, and that error leaves generate_pdf_report
Cleanup(p) ==
    /\ gen[p].pc = "cleanup"
    /\ IF FileAt(gen[p].path) = {}
       THEN /\ gen' = [gen EXCEPT ![p].pc = "done", ![p].result = GenRaised("FileNotFoundError")]
            /\ UNCHANGED out
       ELSE /\ out' = out \ FileAt(gen[p].path)
            /\ gen' = [gen EXCEPT ![p].pc = "done",
                                  ![p].result = GenReturned("s3", gen[p].path)]
    /\ UNCHANGED <<clock, s3_enabled, s3_bucket, notGen>>

ConcurrentNext ==
    \/ Tick
    \/ \E p \in Renders :
           \/ GenerateStart(p)
           \/ RenderStart(p)
           \/ WriteDocument(p)
           \/ CheckPdf(p)
           \/ UploadToS3(p)
           \/ Cleanup(p)

SpecConcurrent == ConcurrentInit /\ [][ConcurrentNext]_vars

---------------------------------------------------------------------------
\* Claims about concurrent renders

\* the document of invocation p
OwnDocument(p) == RenderedDocument(template, gen[p].data, css)

\* what invocation p returned names a file, or an object of the bucket,
\* that holds the document of p
ReturnedOwnDocument(p) ==
    (gen[p].pc = "done" /\ ~gen[p].result.raised)
        => IF gen[p].result.where = "s3"
           THEN \E o \in s3_bucket : o.key = gen[p].filename /\ o.text = OwnDocument(p)
           ELSE \E f \in out : f.path = gen[p].result.ref /\ f.text = OwnDocument(p)

\* C16: render invocations that run at the same time do not disturb one
\* another: what an invocation returned names a file that holds its own
\* document, and no step replaces the content of a file under out/ by the
\* document of another invocation.
C16_ConcurrentRendersIndependent ==
    /\ [](\A p \in Renders : ReturnedOwnDocument(p))
    /\ [][\A f \in out : \A g \in out' : g.path = f.path => g.text = f.text]_vars

---------------------------------------------------------------------------
\* The Stripe webhooks of app.py: stripe_webhook and api_stripe_webhook
\*
\* A delivery is handled in two steps, between which other deliveries may
\* run: the verification with the duplicate check, and the processing with
\* its commit.

Deliveries == 1..MaxDeliveries

ReportEndpoint == "/api/stripe/webhook"
LegacyEndpoint == "/webhooks/stripe"

StripeEvent(id, type, session, intent, has_email, assessment_id) ==
    [id |-> id, type |-> type, session |-> session, intent |-> intent,
     has_email |-> has_email, assessment_id |-> assessment_id]

StripeEvents ==
    {StripeEvent("evt_1", "checkout.session.completed", "cs_1", "pi_1", TRUE, "1"),
     StripeEvent("evt_2", "checkout.session.completed", "cs_2", "pi_2", TRUE, "9"),
     StripeEvent("evt_3", "checkout.session.completed", "cs_3", "pi_3", FALSE, "1"),
     StripeEvent("evt_4", "payment_intent.succeeded", "", "pi_1", TRUE, ""),
     StripeEvent("evt_5", "checkout.session.completed", "cs_5", "pi_5", TRUE, "")}

\* the rows of the assessments table, by id
AssessmentRows == [id \in {"1"} |-> StoredAssessment]

PaymentRow(session, intent, event_id) ==
    [session |-> session, intent |-> intent, event |-> event_id]

ForgetsEvents(rows, event_id) == FALSE

\* a duplicate check that takes every event for recorded
SeesEveryEvent(rows, event_id) == TRUE

\* select(Payment).where(Payment.stripe_event_id == event_id) finds a row
existing_event(rows, event_id) == \E r \in rows : r.event = event_id

\* the unique constraints on stripe_session_id and stripe_event_id
UniqueRows(rows) ==
    \A r1 \in rows : \A r2 \in rows :
        (r1 # r2) => /\ (r1.session # "" => r1.session # r2.session)
                     /\ (r1.event # "" => r1.event # r2.event)

Answer(h, status, body) ==
    [hook EXCEPT ![h].pc = "done", ![h].status = status, ![h].body = body]

WebhookInit ==
    /\ stripe_webhook_secret \in BOOLEAN
    /\ payments = {}
    /\ hook = <<>>
    /\ reports = <<>>
    /\ emails = <<>>
    /\ SubstIdle /\ SchemaIdle /\ NormIdle /\ LintIdle /\ RenderIdle /\ GenIdle /\ CliIdle /\ MdIdle /\ CalcIdle

\* Stripe, or anyone else, posts an event to one of the two endpoints
Deliver ==
    /\ Len(hook) < MaxDeliveries
    /\ \E endpoint \in {ReportEndpoint, LegacyEndpoint}, event \in StripeEvents, signed \in BOOLEAN :
           hook' = Append(hook, [endpoint |-> endpoint, event |-> event, signed |-> signed,
                                 pc |-> "receive", status |-> 0, body |-> ""])
    /\ UNCHANGED <<stripe_webhook_secret, payments, reports, emails, notHook>>

\* both handlers up to the duplicate check
Receive(h) ==
    /\ h \in DOMAIN hook
    /\ hook[h].pc = "receive"
    /\ hook' = IF ~stripe_webhook_secret THEN Answer(h, 500, "webhook secret not configured")
               ELSE IF ~hook[h].signed THEN Answer(h, 400, "invalid signature")
               ELSE IF existing_event(payments, hook[h].event.id) THEN Answer(h, 200, "idempotent")
               ELSE [hook EXCEPT ![h].pc = "process"]
    /\ UNCHANGED <<stripe_webhook_secret, payments, reports, emails, notHook>>

\* the rows after the handler wrote event e to the row it looked up by
\* session, or by payment intent, inserting one when there is none
Written(rows, found, e, session) ==
    IF found = {} THEN rows \cup {PaymentRow(session, e.intent, e.id)}
    ELSE (rows \ found) \cup {[r EXCEPT !.event = e.id, !.intent = e.intent] : r \in found}

\* stripe_webhook after the duplicate check
LegacyProcess(h) ==
    LET e == hook[h].event
        by_session == {r \in payments : r.session = e.session}
        by_intent == {r \in payments : r.intent = e.intent}
        found == IF e.type = "checkout.session.completed" THEN by_session ELSE by_intent
        written == Written(payments, found, e, e.session)
    IN  /\ h \in DOMAIN hook
        /\ hook[h].pc = "process"
        /\ hook[h].endpoint = LegacyEndpoint
        /\ IF e.type \notin {"checkout.session.completed", "payment_intent.succeeded",
                             "payment_intent.payment_failed"}
           THEN /\ hook' = Answer(h, 200, "received")
                /\ UNCHANGED payments
           ELSE IF Cardinality(found) > 1 \/ ~UniqueRows(written)
           THEN /\ hook' = Answer(h, 500, "error")
                /\ UNCHANGED payments
           ELSE /\ hook' = Answer(h, 200, "received")
                /\ payments' = written
        /\ UNCHANGED <<stripe_webhook_secret, reports, emails, notHook>>

\* api_stripe_webhook after the duplicate check: the report is generated,
\* then mailed, and only then is the event written to the payment row
ReportProcess(h) ==
    LET e == hook[h].event
        found == {r \in payments : r.session = e.session}
        written == Written(payments, found, e, e.session)
    IN  /\ h \in DOMAIN hook
        /\ hook[h].pc = "process"
        /\ hook[h].endpoint = ReportEndpoint
        /\ IF e.type # "checkout.session.completed"
           THEN /\ hook' = Answer(h, 200, "event_type")
                /\ UNCHANGED <<payments, reports, emails>>
           ELSE IF ~e.has_email
           THEN /\ hook' = Answer(h, 400, "no customer email")
                /\ UNCHANGED <<payments, reports, emails>>
           ELSE IF e.assessment_id = ""
           THEN /\ hook' = Answer(h, 400, "no assessment_id")
                /\ UNCHANGED <<payments, reports, emails>>
           ELSE IF e.assessment_id \notin DOMAIN AssessmentRows
           THEN /\ hook' = Answer(h, 404, "assessment not found")
                /\ UNCHANGED <<payments, reports, emails>>
           ELSE LET assessment_data == WebhookMetadata @@ AssessmentRows[e.assessment_id]
                    normalized_data == validate_and_normalize_assessment_data(assessment_data)
                IN  IF normalized_data.raised /\ normalized_data.kind = "ValueError"
                    THEN /\ hook' = Answer(h, 400, "Invalid assessment data")
                         /\ UNCHANGED <<payments, reports, emails>>
                    ELSE IF normalized_data.raised
                    THEN /\ hook' = Answer(h, 500, "error")
                         /\ UNCHANGED <<payments, reports, emails>>
                    ELSE /\ reports' = Append(reports, [event |-> e.id, session |-> e.session])
                         /\ emails' = Append(emails, [event |-> e.id, session |-> e.session])
                         /\ IF UniqueRows(written)
                            THEN /\ payments' = written
                                 /\ hook' = Answer(h, 200, "pdf_url")
                            ELSE /\ UNCHANGED payments
                                 /\ hook' = Answer(h, 500, "error")
        /\ UNCHANGED <<stripe_webhook_secret, notHook>>

WebhookNext ==
    \/ Deliver
    \/ \E h \in Deliveries :
           \/ Receive(h)
           \/ LegacyProcess(h)
           \/ ReportProcess(h)

SpecWebhook == WebhookInit /\ [][WebhookNext]_vars

---------------------------------------------------------------------------
\* Claims about the report webhook

\* the duplicate check of delivery h, verified, runs in this step while the
\* event is on a payment row
ChecksRecordedEvent(h) ==
    /\ hook[h].endpoint = ReportEndpoint
    /\ hook[h].pc = "receive" /\ hook'[h].pc # "receive"
    /\ stripe_webhook_secret /\ hook[h].signed
    /\ \E r \in payments : r.event = hook[h].event.id

TimesIn(log, event_id) == Cardinality({i \in DOMAIN log : log[i].event = event_id})

---------------------------------------------------------------------------
\* The compliance CLI: main() of lint_report.py
\*
\* main() answers a missing file at once; otherwise it runs lint_html_file,
\* modelled by the steps of the linter above, on a BrandLinter of its own.

ExitStatusIgnoringFlag(success, linter_warnings, fail_on_warnings) ==
    IF success THEN 0 ELSE 1

\* if args.fail_on_warnings and linter.warnings: return 1;
\* return 0 if success else 1
ExitStatus(success, linter_warnings, fail_on_warnings) ==
    IF fail_on_warnings /\ linter_warnings # <<>> THEN 1
    ELSE IF success THEN 0
    ELSE 1

CliInit ==
    /\ html_file \in {Readable(d) : d \in LintDocuments} \cup {Unreadable}
    /\ cli \in {[file_exists |-> x, fail_on_warnings |-> w, pc |-> "start", status |-> -1] :
                   x \in BOOLEAN, w \in BOOLEAN}
    /\ ~cli.file_exists => html_file = Unreadable
    /\ errors = <<>> /\ warnings = <<>>
    /\ lint_pc = "idle" /\ lint_result = FALSE /\ lint_calls = 0
    /\ SubstIdle /\ SchemaIdle /\ NormIdle /\ RenderIdle /\ GenIdle /\ HookIdle
    /\ MdIdle /\ CalcIdle

\* if not Path(args.html_file).exists(): return 1; else a BrandLinter is
\* made and lint_html_file called
CliStart ==
    /\ cli.pc = "start"
    /\ IF ~cli.file_exists
       THEN /\ cli' = [cli EXCEPT !.pc = "exited", !.status = 1]
            /\ UNCHANGED <<lint_pc, lint_calls>>
       ELSE /\ cli' = [cli EXCEPT !.pc = "lint"]
            /\ lint_pc' = "start"
            /\ lint_calls' = 1
    /\ UNCHANGED <<html_file, errors, warnings, lint_result, notCli>>

\* the flag, then the verdict of lint_html_file, decide the exit status
CliExit ==
    /\ cli.pc = "lint"
    /\ lint_pc = "done"
    /\ cli' = [cli EXCEPT !.pc = "exited",
                          !.status = ExitStatus(lint_result, warnings, cli.fail_on_warnings)]
    /\ UNCHANGED <<lintVars, notCli>>

CliNext ==
    \/ CliStart
    \/ LintOpen
    \/ LintErrorChecks
    \/ LintWarningChecks
    \/ LintReturn
    \/ CliExit

SpecCli == CliInit /\ [][CliNext]_vars

---------------------------------------------------------------------------
\* Claims about the compliance CLI

\* no error, and no warning either when warnings fail the run
NothingToFail == errors = <<>> /\ (cli.fail_on_warnings => warnings = <<>>)

\* the statement without the case of a file that exists and cannot be read:
\* a missing file exits 1, every other run exits 0 exactly when nothing fails
C18_ExitZeroIffNothingToFail ==
    cli.pc = "exited"
        => IF ~cli.file_exists THEN cli.status = 1
           ELSE (cli.status = 0 <=> NothingToFail)

\* C18: the CLI exits 1 when the file does not exist or cannot be read;
\* for a file it read, it exits 0 exactly when the checks produced no error
\* and, with --fail-on-warnings, no warning either, and 1 otherwise.
C18_ExitZeroIffReadAndNothingToFail ==
    cli.pc = "exited"
        => /\ cli.status \in {0, 1}
           /\ IF ~cli.file_exists \/ ~html_file.readable THEN cli.status = 1
              ELSE (cli.status = 0 <=> NothingToFail)

\* a run with the flag exited 1 on a file with warnings and no error
C18_Witness ==
    /\ cli.pc = "exited" /\ cli.file_exists /\ html_file.readable
    /\ cli.fail_on_warnings /\ errors = <<>> /\ warnings # <<>>
    /\ cli.status = 1

---------------------------------------------------------------------------
\* Claims about the formatting of numbers

\* the key and the number of the one placeholder of the formatting
\* specification
FormatKey == CHOOSE key \in DOMAIN data : TRUE
FormatValue == data[FormatKey]

NameHas(words) == \E w \in words : Contains(Lower(FormatKey), w)

IsCurrencyName == NameHas({<<"cost">>, <<"savings">>, <<"rate">>, <<"5", "yr">>})
IsPercentName == NameHas({<<"percentage">>, <<"confidence">>})
IsMarginName == NameHas({<<"margin">>})
IsCountName == NameHas({<<"hours">>, <<"count">>})
IsRiceName == NameHas({<<"rice">>})

ThousandsSeparated(v) == WithCommas(RoundV(v))
OneDecimalPercent(v) ==
    LET tenths == IF v.t = "float" THEN v.n ELSE 10 * v.n
    IN  DigitsOf(tenths \div 10) \o <<".", DigitLex[(tenths % 10) + 1], "%">>

\* the statement with "every other numeric" as it stands: a name with
\* "rice" and none of the earlier words is a thousands-separated integer too
C19_FirstCategoryOfFour ==
    (sub_pc = "done" /\ DOMAIN data # {})
        => /\ ~sub_out.raised
           /\ sub_out.text =
                  IF IsCurrencyName THEN <<"$">> \o ThousandsSeparated(FormatValue)
                  ELSE IF IsPercentName THEN OneDecimalPercent(FormatValue)
                  ELSE ThousandsSeparated(FormatValue)

\* C19: a number is rendered by the first category its field name matches:
\* currency (cost, savings, rate, 5yr) as $ and the thousands-separated
\* rounded integer; else percentage or confidence with one decimal and %;
\* else margin, hours or count as the thousands-separated integer; else a
\* name with "rice" as the plain string of the number; every other name as the
\* thousands-separated integer.
C19_FirstCategoryWithRice ==
    (sub_pc = "done" /\ DOMAIN data # {})
        => /\ ~sub_out.raised
           /\ sub_out.text =
                  IF IsCurrencyName THEN <<"$">> \o ThousandsSeparated(FormatValue)
                  ELSE IF IsPercentName THEN OneDecimalPercent(FormatValue)
                  ELSE IF IsMarginName \/ IsCountName THEN ThousandsSeparated(FormatValue)
                  ELSE IF IsRiceName THEN StrOf(FormatValue)
                  ELSE ThousandsSeparated(FormatValue)

\* a name of two categories was rendered by the earlier one: a percentage
\* that is a cost came out as currency
C19_Witness ==
    /\ sub_pc = "done" /\ DOMAIN data # {}
    /\ IsCurrencyName /\ IsPercentName
    /\ FormatValue = FloatV(152)
    /\ sub_out.text = <<"$", "1", "5">>

---------------------------------------------------------------------------
\* Claims about the percent cleanup

DigitBeforeDoublePercent(t) ==
    \E i \in 1..(Len(t) - 2) : IsDigit(t[i]) /\ t[i + 1] = "%" /\ t[i + 2] = "%"

\* C20: the text substitute_placeholders returns is a fixed point of the
\* percent cleanup, and holds no digit followed by "%%".
C20_CleanupIdempotent ==
    (sub_pc = "done" /\ ~sub_out.raised)
        => /\ PercentCleanup(sub_out.text) = sub_out.text
           /\ ~DigitBeforeDoublePercent(sub_out.text)

---------------------------------------------------------------------------
\* The loop of ReportRenderer._convert_markdown_tables
\*
\* The outer while loop walks the lines; where a line holds "|", the inner
\* loop collects the run of such lines.  Every entry of result remembers the
\* lines it was made of.

TableLineKinds ==
    { <<"|", " ", "role", " ", "|", " ", "owner", " ", "|">>,
      <<"|", "-", "-", "-", "|", "-", "-", "-", "|">>,
      <<" ", "|", ":", "-", "|", " ", "-", ":", "|">>,
      <<"|", " ", "pm", " ", "|", " ", "cto", " ", "|">>,
      <<"a", " ", "|", " ", "b">>,
      <<"|", " ", "|">>,
      <<"plain">>,
      <<>> }

TableTexts ==
    {Join(ls, <<"\n">>) : ls \in UNION {[1..n -> TableLineKinds] : n \in 1..MaxTableLines}}

ResultEntry(text, first, last) == [text |-> text, first |-> first, last |-> last]

TablesInit ==
    /\ md \in {[fn |-> "_convert_markdown_tables", content |-> t, lines |-> Lines(t), i |-> 1,
                j |-> 1, table_lines |-> <<>>, result |-> <<>>, pc |-> "outer", out |-> <<>>] :
               t \in TableTexts}
    /\ SubstIdle /\ SchemaIdle /\ NormIdle /\ LintIdle /\ RenderIdle /\ GenIdle /\ HookIdle
    /\ CliIdle /\ CalcIdle

\* one test of `while i < len(lines)` and, in the loop, of `if "|" in line`
TableOuter ==
    /\ md.pc = "outer"
    /\ md' = IF md.i > Len(md.lines)
             THEN [md EXCEPT !.pc = "done",
                             !.out = Join([k \in 1..Len(md.result) |-> md.result[k].text],
                                          <<"\n">>)]
             ELSE IF HasPipe(Strip(md.lines[md.i]))
             THEN [md EXCEPT !.table_lines = <<>>, !.j = md.i, !.pc = "inner"]
             ELSE [md EXCEPT !.result = Append(md.result,
                                               ResultEntry(md.lines[md.i], md.i, md.i)),
                             !.i = md.i + 1]
    /\ UNCHANGED notMd

\* one test of `while j < len(lines) and "|" in lines[j]` that holds
TableCollect ==
    /\ md.pc = "inner"
    /\ md.j <= Len(md.lines) /\ HasPipe(md.lines[md.j])
    /\ md' = [md EXCEPT !.table_lines = Append(md.table_lines, md.lines[md.j]), !.j = md.j + 1]
    /\ UNCHANGED notMd

\* the run is collected: it is converted when its second line looks like a
\* separator, else the line at i is passed on and the loop goes to the next
TableDecide ==
    /\ md.pc = "inner"
    /\ ~(md.j <= Len(md.lines) /\ HasPipe(md.lines[md.j]))
    /\ md' = IF Len(md.table_lines) >= 2 /\ IsSeparatorLine(md.table_lines[2])
             THEN [md EXCEPT !.result = Append(md.result,
                                               ResultEntry(_convert_table_lines_to_html(
                                                               md.table_lines),
                                                           md.i, md.j - 1)),
                             !.i = md.j, !.pc = "outer"]
             ELSE [md EXCEPT !.result = Append(md.result,
                                               ResultEntry(md.lines[md.i], md.i, md.i)),
                             !.i = md.i + 1, !.pc = "outer"]
    /\ UNCHANGED notMd

TablesNext == TableOuter \/ TableCollect \/ TableDecide

SpecTables == TablesInit /\ [][TablesNext]_vars

---------------------------------------------------------------------------
\* Claims about the table conversion

\* a line in the style of |---|---|: bars around cells of dashes, colons
\* and blanks, a dash in each
IsDashLine(line) ==
    LET l == Strip(line)
        bars == {j \in 1..Len(l) : l[j] = "|"}
    IN  /\ Len(l) >= 3 /\ l[1] = "|" /\ l[Len(l)] = "|"
        /\ \A j \in 1..Len(l) : l[j] \in {"|", "-", ":", " "}
        /\ \A b \in bars : b < Len(l) => \E j \in (b + 1)..Len(l) :
               /\ l[j] = "-"
               /\ \A q \in (b + 1)..j : l[q] # "|"

\* the text is one markdown table, lines a to b, among lines without "|":
\* a header line, a separator line and b - a - 1 data lines
IsTableAt(lines, a, b) ==
    /\ 1 <= a /\ a + 1 <= b /\ b <= Len(lines)
    /\ \A k \in 1..Len(lines) : HasPipe(lines[k]) <=> k \in a..b
    /\ IsDashLine(lines[a + 1])

\* the <tr> lexemes of t between the first open and the first close
RowsWithin(t, open, close) ==
    LET o == FirstIn({j \in 1..Len(t) : t[j] = open})
        c == FirstIn({j \in 1..Len(t) : t[j] = close})
    IN  IF o = 0 \/ c = 0 THEN 0
        ELSE Cardinality({j \in o..c : t[j] = "<tr>"})

\* C21: a markdown table of a header line, a separator line and N data lines
\* is converted to exactly one HTML table with one header row and N body
\* rows, for every N from 0.
C21_TableRowsPreserved ==
    md.pc = "done"
        => \A a \in 1..Len(md.lines), b \in 1..Len(md.lines) :
               IsTableAt(md.lines, a, b)
                   => /\ CountLex(md.out, {"<table>"}) = 1
                      /\ CountLex(md.out, {"</table>"}) = 1
                      /\ RowsWithin(md.out, "<thead>", "</thead>") = 1
                      /\ RowsWithin(md.out, "<tbody>", "</tbody>") = b - a - 1
                      /\ CountLex(md.out, {"<tr>"}) = b - a

\* a table of two data lines was converted
C21_Witness ==
    /\ md.pc = "done"
    /\ IsTableAt(md.lines, 1, 4)
    /\ RowsWithin(md.out, "<tbody>", "</tbody>") = 2

\* what is left of the two loops: 0 when the conversion has returned
TableMeasure ==
    IF md = <<>> \/ md.fn # "_convert_markdown_tables" \/ md.pc = "done" THEN 0
    ELSE (Len(md.lines) + 1 - md.i) * (2 * Len(md.lines) + 4)
            + (IF md.pc = "outer" THEN Len(md.lines) + 3 ELSE Len(md.lines) + 2 - md.j)

\* a line whose first non-blank character is a bar, followed by one or more
\* blanks, dashes and colons and then a bar
StartsLikeSeparator(line) ==
    \E p \in 1..Len(line), q \in 1..Len(line) :
        /\ p + 1 < q
        /\ line[p] = "|" /\ line[q] = "|"
        /\ \A k \in 1..(p - 1) : line[k] \in Whitespace
        /\ \A k \in (p + 1)..(q - 1) : line[k] \in Whitespace \cup {"-", ":"}

\* entry e of the result stands for the lines e.first..e.last of the input:
\* either one line given back as it was, or a run of lines with a bar whose
\* second line is a separator, given back as one table
EntryAccountsFor(e, lines) ==
    /\ 1 <= e.first /\ e.first <= e.last /\ e.last <= Len(lines)
    /\ \/ e.first = e.last /\ e.text = lines[e.first]
       \/ /\ e.first < e.last
          /\ \A q \in e.first..e.last : HasPipe(lines[q])
          /\ StartsLikeSeparator(lines[e.first + 1])
          /\ CountLex(e.text, {"<table>"}) = 1
          /\ CountLex(e.text, {"<tr>"}) = e.last - e.first

\* the entries of the result stand for the lines 1..n, each line once, in
\* the order of the input
LinesAccounted ==
    /\ md.result # <<>>
    /\ md.result[1].first = 1
    /\ md.result[Len(md.result)].last = Len(md.lines)
    /\ \A k \in 1..(Len(md.result) - 1) : md.result[k + 1].first = md.result[k].last + 1
    /\ \A k \in 1..Len(md.result) : EntryAccountsFor(md.result[k], md.lines)
    /\ md.out = Join([k \in 1..Len(md.result) |-> md.result[k].text], <<"\n">>)

\* the guards of TableOuter, TableCollect and TableDecide
TableStepPossible ==
    \/ md.pc = "outer"
    \/ md.pc = "inner" /\ md.j <= Len(md.lines) /\ HasPipe(md.lines[md.j])
    \/ md.pc = "inner" /\ ~(md.j <= Len(md.lines) /\ HasPipe(md.lines[md.j]))

\* the conversion has returned with every line accounted for, or it can
\* take a step
ReturnsOrGoesOn ==
    IF md.pc = "done" THEN LinesAccounted ELSE TableStepPossible

\* C26: the conversion terminates (every step of its loops lowers a
\* natural-number measure and a step is possible until it has returned), and
\* when it has returned every input line is accounted for exactly once, as
\* a line of one table or given back unchanged in its place.
C26_TerminatesAccountingForEveryLine ==
    /\ ReturnsOrGoesOn
    /\ [][TableMeasure' < TableMeasure /\ ReturnsOrGoesOn']_vars

\* a line with a bar that starts no table was given back, and the run after
\* it became a table
C26_Witness ==
    /\ md.pc = "done"
    /\ Len(md.result) = 2
    /\ HasPipe(md.result[1].text) /\ md.result[1].text = md.lines[1]
    /\ md.result[2].first = 2 /\ md.result[2].last = 4

---------------------------------------------------------------------------
\* One call of ReportRenderer.inject_image_paths

ImageLines ==
    {<<"![">> \o alt \o <<"](components/", name, ")">> :
        alt \in {<<"radar">>, <<>>}, name \in {"radar.svg", "unknown.svg"}}

FollowingLineKinds ==
    { <<"_", "my caption", "_">>,
      <<" ", "_", "my caption", "_", " ">>,
      <<"plain">>,
      <<"_", "open">>,
      <<>> }

\* an image line and up to four lines after it
ImageTexts ==
    {Join(<<img>> \o ls, <<"\n">>) :
        img \in ImageLines, ls \in UNION {[1..n -> FollowingLineKinds] : n \in 0..4}}

ImagesInit ==
    /\ md \in {[fn |-> "inject_image_paths", content |-> t, pc |-> "start", out |-> <<>>] :
               t \in ImageTexts}
    /\ SubstIdle /\ SchemaIdle /\ NormIdle /\ LintIdle /\ RenderIdle /\ GenIdle /\ HookIdle
    /\ CliIdle /\ CalcIdle

InjectImagePaths ==
    /\ md.pc = "start"
    /\ md.fn = "inject_image_paths"
    /\ md' = [md EXCEPT !.out = inject_image_paths(md.content), !.pc = "done"]
    /\ UNCHANGED notMd

ImagesNext == InjectImagePaths

SpecImages == ImagesInit /\ [][ImagesNext]_vars

---------------------------------------------------------------------------
\* Claims about the figure captions

\* the lines after the image line that are an italic caption, _text_,
\* among the first n
CaptionLinesWithin(lines, n) ==
    {k \in 2..Len(lines) :
        /\ k <= n + 1
        /\ Len(Strip(lines[k])) >= 3
        /\ Strip(lines[k])[1] = "_"
        /\ Strip(lines[k])[Len(Strip(lines[k]))] = "_"}

\* the caption the statement names for the image on the first line, looking
\* at the n lines after it
NamedCaption(t, n) ==
    LET lines == Lines(t)
        found == CaptionLinesWithin(lines, n)
        alt_text == SubSeq(lines[1], 2, Len(lines[1]) - 3)
        name == lines[1][Len(lines[1]) - 1]
    IN  IF found # {}
        THEN SubSeq(Strip(lines[MinOf(found)]), 2, Len(Strip(lines[MinOf(found)])) - 1)
        ELSE IF name \in DOMAIN image_captions THEN <<image_captions[name]>>
        ELSE alt_text

FigureCaptions(t) == Elements(t, {"<figcaption>"}, "</figcaption>", 1)

\* C22: the caption of the figure is the text of the first italic caption
\* line among the three lines that follow the image line; without one it is
\* the entry of the image file in the caption table, or else the alt text.
C22_CaptionFromNextThreeLines ==
    (md.pc = "done" /\ md.fn = "inject_image_paths")
        => FigureCaptions(md.out) = <<NamedCaption(md.content, 3)>>

---------------------------------------------------------------------------
\* Paragraph wrapping of a converted document, and the cleanup after it

MaxBlocks == 3

BlockKinds ==
    { <<"<ul>", "<li>", "a", "</li>", "</ul>">>,
      <<"text", "\n", "<ul>", "<li>", "a", "</li>", "</ul>">>,
      <<"<figure>", "<img src=\"x\">", "<figcaption>", "c", "</figcaption>", "</figure>">>,
      <<"<figure>", "<img src=\"x\">", "<figcaption>", "c", "</figcaption>", "</figure>",
        "\n", "_", "my caption", "_">>,
      <<"<table>", "<tr>", "<td>", "a", "</td>", "</tr>", "</table>">>,
      <<"plain">> }

BlockTexts ==
    {Join(bs, <<"\n", "\n">>) : bs \in UNION {[1..n -> BlockKinds] : n \in 1..MaxBlocks}}

ParagraphsInit ==
    /\ md \in {[fn |-> "_wrap_paragraphs", content |-> t, pc |-> "start", out |-> <<>>] :
               t \in BlockTexts}
    /\ SubstIdle /\ SchemaIdle /\ NormIdle /\ LintIdle /\ RenderIdle /\ GenIdle /\ HookIdle
    /\ CliIdle /\ CalcIdle

\* content = self._wrap_paragraphs(content), the last step of
\* _basic_markdown_to_html
WrapParagraphs ==
    /\ md.pc = "start"
    /\ md.fn = "_wrap_paragraphs"
    /\ md' = [md EXCEPT !.out = _wrap_paragraphs(md.content), !.pc = "wrapped"]
    /\ UNCHANGED notMd

\* html_content = self.cleanup_html(html_content)
CleanupHtml ==
    /\ md.pc = "wrapped"
    /\ md.fn = "_wrap_paragraphs"
    /\ md' = [md EXCEPT !.out = cleanup_html(md.out), !.pc = "done"]
    /\ UNCHANGED notMd

ParagraphsNext == WrapParagraphs \/ CleanupHtml

SpecParagraphs == ParagraphsInit /\ [][ParagraphsNext]_vars

---------------------------------------------------------------------------
\* Claims about paragraph wrapping

BlockLevelTags == TableTags \cup OpenTags.ul \cup OpenTags.figure

HasBlockMarkup(block) == \E j \in 1..Len(block) : block[j] \in BlockLevelTags

BlocksOf(t) == PartsBetween(t, ParagraphBreaks(t), 2)

\* C23: once the document is wrapped and cleaned up, every block that holds
\* a table, a list or a figure stands in the output as it was, without <p>
\* or </p>, and every other block stands between <p> and </p>.
C23_BlockMarkupUnwrapped ==
    (md.pc = "done" /\ md.fn = "_wrap_paragraphs")
        => /\ Len(BlocksOf(md.out)) = Len(BlocksOf(md.content))
           /\ \A k \in 1..Len(BlocksOf(md.content)) :
                 BlocksOf(md.out)[k] =
                    IF HasBlockMarkup(BlocksOf(md.content)[k])
                    THEN BlocksOf(md.content)[k]
                    ELSE <<"<p>">> \o BlocksOf(md.content)[k] \o <<"</p>">>

---------------------------------------------------------------------------
\* Claims about the raw table check

\* C24: when the error checks have run on a document that holds a markdown
\* separator line, the error list holds a raw-table finding, whether or not
\* the document also holds a converted <table>.
C24_RawTableAlwaysReported ==
    (/\ lint_pc \in {"warnings", "report", "done"}
     /\ html_file.readable
     /\ RawTableMatches(html_file.content, 1) > 0)
        => \E k \in 1..Len(errors) : errors[k].check = "raw table syntax"

---------------------------------------------------------------------------
\* POST /api/assess: the overhead and cost of one submission, and the row
\* it stores

Missing == [t |-> "missing", n |-> 0, s |-> <<>>, items |-> <<>>]

\* dict.get(key, default) with a one-lexeme key text
MapGet(map, key, default) ==
    IF Len(key) = 1 /\ key[1] \in DOMAIN map THEN map[key[1]] ELSE default

meeting_map ==
    ("light" :> FloatOf(6, 10)) @@ ("moderate" :> FloatOf(8, 10)) @@ ("heavy" :> FloatOf(1, 1))

arche_adj ==
    ("architect" :> FloatOf(9, 10)) @@ ("conductor" :> FloatOf(85, 100))
        @@ ("curator" :> FloatOf(11, 10)) @@ ("craftsperson" :> FloatOf(12, 10))

team_mult == ("solo" :> 1) @@ ("2-5" :> 4) @@ ("6-15" :> 10) @@ ("16-50" :> 25) @@ ("50+" :> 55)

\* float(value): False for a text that is no numeral
CanFloat(v) ==
    \/ v.t \in {"int", "bool"}
    \/ v.t = "str" /\ v.s # <<>> /\ \A i \in 1..Len(v.s) : \E d \in 1..10 : DigitLex[d] = v.s[i]

AsFloat(v) == IF v.t = "str" THEN FloatOf(NatOf(v.s), 1) ELSE FloatOf(v.n, 1)

\* hours_lost_ppw * 52 * hourly_rate * tm, from the left
AnnualCost(hours_lost_ppw, hourly_rate, tm) ==
    FloatMul(FloatMul(FloatMul(hours_lost_ppw, FloatOf(52, 1)), hourly_rate), FloatOf(tm, 1))

\* what the handler computes from the context and the scorer's archetype
AssessMetrics(context, primary) ==
    LET meeting_load == Lower(StrOf(GetV(DictV(context), "meeting_load", StrV(<<"moderate">>))))
        overhead_base == MapGet(meeting_map, meeting_load, FloatOf(8, 10))
        overhead_index == FloatMul(overhead_base, MapGet(arche_adj, <<primary>>, FloatOf(1, 1)))
        team_size == StrOf(GetV(DictV(context), "team_size", StrV(<<"solo">>)))
        tm == MapGet(team_mult, team_size, 1)
        hourly_rate == AsFloat(GetV(DictV(context), "hourly_rate", IntV(85)))
        hours_lost_ppw == FloatMul(overhead_index, FloatOf(5, 1))
    IN  [hours_lost_ppw |-> hours_lost_ppw,
         annual_cost |-> AnnualCost(hours_lost_ppw, hourly_rate, tm),
         overhead_index |-> overhead_index]

\* Inputs of the assessment specification
MeetingLoads ==
    {StrV(<<"light">>), StrV(<<"moderate">>), StrV(<<"heavy">>), StrV(<<"daily">>), Missing}
TeamSizes ==
    {StrV(<<"solo">>), StrV(<<"2-5">>), StrV(<<"6-15">>), StrV(<<"16-50">>), StrV(<<"50+">>),
     IntV(200), Missing}
HourlyRates == {IntV(10), IntV(25), IntV(85), IntV(500), IntV(1000), StrV(<<"n/a">>), Missing}
Archetypes == {"architect", "conductor", "curator", "craftsperson", "explorer"}

ContextOf(m, ts, r) ==
    DictOf(SelectSeq(<< <<"meeting_load", m>>, <<"team_size", ts>>, <<"hourly_rate", r>> >>,
                     LAMBDA p : p[2] # Missing))

AssessInit ==
    /\ calc \in {[pc |-> "start", scorer |-> sc, context |-> ContextOf(m, ts, r),
                  primary |-> a, status |-> 0, row |-> <<>>] :
                 sc \in BOOLEAN, m \in MeetingLoads, ts \in TeamSizes, r \in HourlyRates,
                 a \in Archetypes}
    /\ SubstIdle /\ SchemaIdle /\ NormIdle /\ LintIdle /\ RenderIdle /\ GenIdle /\ HookIdle
    /\ CliIdle /\ MdIdle

\* assess(): 500 without the scoring module, 500 and a rollback when the
\* computation raises, otherwise the row is stored and the answer is 200
Assess ==
    /\ calc.pc = "start"
    /\ calc' =
         IF ~calc.scorer THEN [calc EXCEPT !.pc = "done", !.status = 500]
         ELSE IF ~CanFloat(GetV(DictV(calc.context), "hourly_rate", IntV(85)))
         THEN [calc EXCEPT !.pc = "done", !.status = 500]
         ELSE [calc EXCEPT !.pc = "done", !.status = 200,
                           !.row = [context |-> calc.context,
                                    metrics |-> AssessMetrics(calc.context, calc.primary)]]
    /\ UNCHANGED notCalc

AssessNext == Assess

SpecAssess == AssessInit /\ [][AssessNext]_vars

---------------------------------------------------------------------------
\* Claims about the cost computation

\* x and y are the same number
FloatSame(x, y) ==
    LET low == IF x.e < y.e THEN x.e ELSE y.e
    IN  BigCmp(Trim(ShiftLeft(x.m, x.e - low)), Trim(ShiftLeft(y.m, y.e - low))) = 0

Clamp(n, lo, hi) == IF n < lo THEN lo ELSE IF n > hi THEN hi ELSE n

\* the cost of the stored context with the hourly rate brought into
\* [25, 500] and a numeric team size into [1, 100]; the hours the handler
\* computes lie between 2.55 and 6.0, inside [0.5, 40]
ClampedAnnualCost(context, hours_lost_ppw) ==
    LET rate == GetV(DictV(context), "hourly_rate", IntV(85))
        ts == GetV(DictV(context), "team_size", StrV(<<"solo">>))
    IN  AnnualCost(hours_lost_ppw,
                   FloatOf(Clamp(rate.n, 25, 500), 1),
                   IF ts.t = "int" THEN Clamp(ts.n, 1, 100) ELSE MapGet(team_mult, ts.s, 1))

\* C25: the annual cost stored for a submission with an integer hourly rate
\* is the cost of the rate brought into [25, 500] and the team size brought
\* into [1, 100].
C25_CostInputsClamped ==
    (/\ calc # <<>>
     /\ calc.pc = "done"
     /\ calc.status = 200
     /\ GetV(DictV(calc.context), "hourly_rate", IntV(85)).t = "int")
        => FloatSame(calc.row.metrics.annual_cost,
                     ClampedAnnualCost(calc.context, calc.row.metrics.hours_lost_ppw))

---------------------------------------------------------------------------
\* Claims about a linter that is used again

\* C27: when lint_html_file has returned for a readable document, its
\* verdict is the verdict a fresh BrandLinter gives for that document,
\* whatever the linter was given before.
C27_VerdictOfDocumentAlone ==
    (lint_pc = "done" /\ html_file.readable)
        => lint_result = LintVerdict([errors |-> ErrorChecks(html_file.content),
                                      warnings |-> WarningChecks(html_file.content)])

---------------------------------------------------------------------------
\* A template taken through substitution, assembly and the linter

\* texts of one or two placeholders in a frame that is clean without them:
\* eleven page breaks before and the two cost lines after
DefenseSegments == {seg \in Segments : Len(seg) > 1} \cup {<<"x">>}

DefenseTemplates ==
    {ElevenBreaks \o <<"\n", "\n", "by", " ">> \o a \o <<" ">> \o b \o <<"\n", "\n">>
         \o GoodCostLines :
        a \in DefenseSegments, b \in DefenseSegments}

DefenseInit ==
    /\ md \in {[fn |-> "render_and_lint", template |-> t, data |-> d, pc |-> "substitute",
                raised |-> FALSE, content |-> <<>>, out |-> <<>>, errors |-> <<>>] :
               t \in DefenseTemplates, d \in {<<>>, SampleData, TokenData}}
    /\ SubstIdle /\ SchemaIdle /\ NormIdle /\ LintIdle /\ RenderIdle /\ GenIdle /\ HookIdle
    /\ CliIdle /\ CalcIdle

\* content = self.substitute_placeholders(template, data)
DefenseSubstitute ==
    /\ md.pc = "substitute"
    /\ LET result == substitute_placeholders(md.template, md.data)
       IN  md' = IF result.raised THEN [md EXCEPT !.raised = TRUE, !.pc = "done"]
                 ELSE [md EXCEPT !.content = result.text, !.pc = "assemble"]
    /\ UNCHANGED notMd

\* inject_image_paths, markdown_to_html and create_html_document
DefenseAssemble ==
    /\ md.pc = "assemble"
    /\ \E sheet \in Stylesheets :
           md' = [md EXCEPT !.out = create_html_document(
                                        markdown_to_html(inject_image_paths(md.content)), sheet),
                            !.pc = "lint"]
    /\ UNCHANGED notMd

\* the error checks of a fresh BrandLinter on the assembled document
DefenseLint ==
    /\ md.pc = "lint"
    /\ md' = [md EXCEPT !.errors = ErrorChecks(md.out), !.pc = "done"]
    /\ UNCHANGED notMd

DefenseNext == DefenseSubstitute \/ DefenseAssemble \/ DefenseLint

SpecDefense == DefenseInit /\ [][DefenseNext]_vars

---------------------------------------------------------------------------
\* Claims about a missing field across the stages

\* C28: when the template has a placeholder whose field the record does not
\* hold, substitute_placeholders raises or the linter reports at least one
\* error on the assembled document.
C28_MissingFieldCaught ==
    (/\ md.fn = "render_and_lint"
     /\ md.pc = "done"
     /\ MissingKeys(md.template, md.data) # {})
        => md.raised \/ md.errors # <<>>

---------------------------------------------------------------------------
\* Claims about what the report webhook writes

\* delivery h to the report webhook is answered in this step
ReportAnswered(h) ==
    /\ hook[h].endpoint = ReportEndpoint
    /\ hook[h].pc # "done" /\ hook'[h].pc = "done"

\* delivery h to the report webhook, verified, passes the duplicate check in
\* this step while no payment row holds its event
ChecksUnrecordedEvent(h) ==
    /\ hook[h].endpoint = ReportEndpoint
    /\ hook[h].pc = "receive" /\ hook'[h].pc # "receive"
    /\ stripe_webhook_secret /\ hook[h].signed
    /\ \A r \in payments : r.event # hook[h].event.id

RedeliveredAfterError(h1, h2) ==
    /\ h1 < h2
    /\ hook[h1].endpoint = ReportEndpoint /\ hook[h2].endpoint = ReportEndpoint
    /\ hook[h1].event = hook[h2].event
    /\ hook[h1].pc = "done"
    /\ hook[h1].status >= 400
    /\ hook[h1].body \notin {"webhook secret not configured", "invalid signature"}

---------------------------------------------------------------------------
\* Claims about stored assessments in the report webhook

\* C30: when the report webhook has normalized a row that assess() stored,
\* validate_and_normalize_assessment_data has returned a record that passes
\* validate_template_fields, and the webhook goes on to the report.
C30_StoredAssessmentNormalizes ==
    (/\ norm_pc = "webhook_done"
     /\ \E row \in AssessStoredRows : raw_data = WebhookMetadata @@ row)
        => /\ ~norm_out.raised
           /\ validate_template_fields(norm_out.value).ok
           /\ response = 200

====
